---- MODULE Spec2Model ----
(***************************************************************************)
(* Model of the multi-source extraction and merge workflow of WebScraper:  *)
(* app/core/workflow_orchestrator.py (WorkflowOrchestrator),               *)
(* app/core/url_utils.py and run_scrape_endpoint of app/api/endpoints.py.  *)
(*                                                                         *)
(* Field names.  EventRecord (app/api/models.py) declares 20 fields with   *)
(* Hebrew names; the model keeps six of them, in declaration order, under  *)
(* ASCII stand-ins:                                                        *)
(*    "date"     = models.py:11  (str)                                     *)
(*    "start"    = models.py:12  (str)                                     *)
(*    "name"     = models.py:14  (str)                                     *)
(*    "speakers" = models.py:22  (List[str])                               *)
(*    "IMAGE"    = models.py:25  (str)                                     *)
(*    "Error"    = models.py:30  (str)                                     *)
(*                                                                         *)
(* Python values.  A field value is None, a str or a list of str; the      *)
(* model tags them so that None, "" and [] stay three different values.    *)
(***************************************************************************)
EXTENDS Integers, Sequences, FiniteSets, TLC

(***************************************************************************)
(* Python values                                                           *)
(***************************************************************************)
None == [k |-> "none", s |-> "", l |-> <<>>]
Str(x) == [k |-> "str", s |-> x, l |-> <<>>]
Lst(q) == [k |-> "list", s |-> "", l |-> q]

\* bool(v): None, "" and [] are falsy.
Truthy(v) == (v.k = "str" /\ v.s # "") \/ (v.k = "list" /\ v.l # <<>>)

\* "; ".join(parts) / ", ".join(parts)
RECURSIVE JoinWith(_, _)
JoinWith(sep, parts) ==
    IF parts = <<>> THEN ""
    ELSE IF Len(parts) = 1 THEN parts[1]
    ELSE parts[1] \o sep \o JoinWith(sep, Tail(parts))

\* What an f-string prints for a value: a str as it is, a list as its repr.
PyFormat(v) ==
    IF v.k = "str" THEN v.s
    ELSE IF v.k = "list"
         THEN "[" \o JoinWith(", ", [i \in 1..Len(v.l) |-> "'" \o v.l[i] \o "'"]) \o "]"
         ELSE "None"

(***************************************************************************)
(* EventRecord                                                             *)
(***************************************************************************)
FieldOrder == <<"date", "start", "name", "speakers", "IMAGE", "Error">>
FieldNames == {FieldOrder[i] : i \in 1..Len(FieldOrder)}
ListFields == {"speakers"}

\* EventRecord(): every field defaults to None.
EmptyRecord == [f \in FieldNames |-> None]

(***************************************************************************)
(* WorkflowOrchestrator._merge_event_data                                  *)
(***************************************************************************)
\* field_value is not None and field_value != ""
SourceSupplies(v) == ~(v.k = "none") /\ ~(v.k = "str" /\ v.s = "")

\* existing_value is None or existing_value == ""
TargetIsBlank(v) == v.k = "none" \/ (v.k = "str" /\ v.s = "")

ConflictNote(f, old, new) ==
    "Conflict in " \o f \o ": '" \o PyFormat(old) \o "' vs '" \o PyFormat(new) \o "'"

\* Line 240: the target holds a value and the source supplies another one.
InConflict(f, target, source) ==
    SourceSupplies(source[f]) /\ ~TargetIsBlank(target[f]) /\ target[f] # source[f]

\* errors, in the order of source.dict().items()
RECURSIVE ConflictsFrom(_, _, _)
ConflictsFrom(i, target, source) ==
    IF i > Len(FieldOrder) THEN <<>>
    ELSE (IF InConflict(FieldOrder[i], target, source)
          THEN <<ConflictNote(FieldOrder[i], target[FieldOrder[i]], source[FieldOrder[i]])>>
          ELSE <<>>) \o ConflictsFrom(i + 1, target, source)

\* A last-writer-wins merge: a supplied value always replaces the target's.
MergeOverwriting(target, source) ==
    [f \in FieldNames |-> IF SourceSupplies(source[f]) THEN source[f] ELSE target[f]]

\* A merge that sets blank fields and never records a conflict.
MergeSilent(target, source) ==
    [f \in FieldNames |->
        IF SourceSupplies(source[f]) /\ TargetIsBlank(target[f])
        THEN source[f] ELSE target[f]]

\* Lines 234-239: the fields the source supplies and the target lacks.
FillBlanks(target, source) ==
    [f \in FieldNames |->
        IF SourceSupplies(source[f]) /\ TargetIsBlank(target[f])
        THEN source[f] ELSE target[f]]

\* current_errors = target.Error if target.Error else ""
CurrentErrors(target) == IF Truthy(target["Error"]) THEN target["Error"].s ELSE ""

\* An annotation step that writes the separator even when errors is empty.
RecordErrorsStamping(target, errors) ==
    [target EXCEPT !["Error"] =
        Str(IF CurrentErrors(target) # ""
            THEN CurrentErrors(target) \o "; " \o JoinWith("; ", errors)
            ELSE JoinWith("; ", errors))]

\* Lines 244-246.
RecordErrors(target, errors) ==
    IF errors = <<>> THEN target
    ELSE [target EXCEPT !["Error"] =
             Str(IF CurrentErrors(target) # ""
                 THEN CurrentErrors(target) \o "; " \o JoinWith("; ", errors)
                 ELSE JoinWith("; ", errors))]

MergeEventData(target, source) ==
    RecordErrors(FillBlanks(target, source), ConflictsFrom(1, target, source))

(***************************************************************************)
(* Strings.  Texts, URLs and page contents are strings, scanned character  *)
(* by character as the regular expressions of the source scan them.        *)
(***************************************************************************)
CharAt(s, i) == SubSeq(s, i, i)
HasPrefixAt(s, i, p) == i + Len(p) - 1 <= Len(s) /\ SubSeq(s, i, i + Len(p) - 1) = p
StartsWith(s, p) == HasPrefixAt(s, 1, p)
InChars(c, chars) == \E j \in 1..Len(chars) : CharAt(chars, j) = c

\* First position >= i of s holding a character of chars, or Len(s) + 1.
RECURSIVE FindAny(_, _, _)
FindAny(s, i, chars) ==
    IF i > Len(s) THEN Len(s) + 1
    ELSE IF InChars(CharAt(s, i), chars) THEN i
    ELSE FindAny(s, i + 1, chars)

\* str.strip(), for the whitespace characters blank and newline.
Whitespace == " \n"
RECURSIVE LStrip(_)
LStrip(s) ==
    IF Len(s) > 0 /\ InChars(CharAt(s, 1), Whitespace)
    THEN LStrip(SubSeq(s, 2, Len(s))) ELSE s
RECURSIVE RStrip(_)
RStrip(s) ==
    IF Len(s) > 0 /\ InChars(CharAt(s, Len(s)), Whitespace)
    THEN RStrip(SubSeq(s, 1, Len(s) - 1)) ELSE s
Strip(s) == RStrip(LStrip(s))

UpperChars == "ABCDEFGHIJKLMNOPQRSTUVWXYZ"
LowerChars == "abcdefghijklmnopqrstuvwxyz"
DigitChars == "0123456789"

\* str.lower()
LowerChar(c) ==
    IF InChars(c, UpperChars)
    THEN CharAt(LowerChars, CHOOSE j \in 1..Len(UpperChars) : CharAt(UpperChars, j) = c)
    ELSE c
RECURSIVE Lower(_)
Lower(s) == IF s = "" THEN "" ELSE LowerChar(CharAt(s, 1)) \o Lower(SubSeq(s, 2, Len(s)))

(***************************************************************************)
(* app/core/url_utils.py                                                   *)
(***************************************************************************)
\* The characters one repetition of the group of url_pattern accepts:
\* [a-zA-Z], [0-9], the range $-_ with @ . & +, and ! * \ ( ) ,
\* (the %hh alternative adds nothing: % lies in the range $-_).
UrlBodyChars ==
    LowerChars \o UpperChars \o DigitChars \o "$%&'()*+,-./:;<=>?@[\\]^_" \o "!"

\* Where the body of a match of url_pattern starting at i begins, or 0.
UrlBodyStart(s, i) ==
    IF HasPrefixAt(s, i, "http://") THEN i + 7
    ELSE IF HasPrefixAt(s, i, "https://") THEN i + 8
    ELSE 0

\* End of the maximal run of body characters starting at i (i - 1 if none).
RECURSIVE UrlBodyEnd(_, _)
UrlBodyEnd(s, i) ==
    IF i <= Len(s) /\ InChars(CharAt(s, i), UrlBodyChars) THEN UrlBodyEnd(s, i + 1)
    ELSE i - 1

\* End of the match of url_pattern starting at i, or 0 when none starts there.
UrlMatchEnd(s, i) ==
    IF UrlBodyStart(s, i) = 0 THEN 0
    ELSE IF UrlBodyEnd(s, UrlBodyStart(s, i)) < UrlBodyStart(s, i) THEN 0
    ELSE UrlBodyEnd(s, UrlBodyStart(s, i))

\* The least position of a set of positions, or none when the set is empty.
FirstOf(positions, none) ==
    IF positions = {} THEN none
    ELSE CHOOSE j \in positions : \A k \in positions : j <= k

\* Where the next match of url_pattern at or after i starts, or Len(s) + 1.
NextUrlMatch(s, i) == FirstOf({j \in i..Len(s) : UrlMatchEnd(s, j) # 0}, Len(s) + 1)

\* re.findall(url_pattern, text): leftmost, greedy, non-overlapping.
RECURSIVE FindUrlsFrom(_, _)
UrlsMatchedAt(s, m) ==
    IF m > Len(s) THEN <<>>
    ELSE <<SubSeq(s, m, UrlMatchEnd(s, m))>> \o FindUrlsFrom(s, UrlMatchEnd(s, m) + 1)

FindUrlsFrom(s, i) == UrlsMatchedAt(s, NextUrlMatch(s, i))

extract_urls_from_text(text) == FindUrlsFrom(text, 1)

\* urlparse(url): scheme, netloc and the rest (path, parameters and query),
\* with the fragment split off.
SchemeChars == LowerChars \o UpperChars \o DigitChars \o "+-."
RECURSIVE AllIn(_, _)
AllIn(s, chars) ==
    s = "" \/ (InChars(CharAt(s, 1), chars) /\ AllIn(SubSeq(s, 2, Len(s)), chars))

\* The scheme of url is what precedes its first colon, when that is a
\* letter followed by scheme characters.
HasScheme(url, colon) ==
    /\ colon > 1
    /\ colon <= Len(url)
    /\ InChars(CharAt(url, 1), LowerChars \o UpperChars)
    /\ AllIn(SubSeq(url, 1, colon - 1), SchemeChars)

UrlScheme(url) ==
    IF HasScheme(url, FindAny(url, 1, ":"))
    THEN Lower(SubSeq(url, 1, FindAny(url, 1, ":") - 1)) ELSE ""

AfterScheme(url) ==
    IF HasScheme(url, FindAny(url, 1, ":"))
    THEN SubSeq(url, FindAny(url, 1, ":") + 1, Len(url)) ELSE url

\* The netloc follows "//" and ends before the next "/", "?" or "#".
NetlocEnd(rest) == IF StartsWith(rest, "//") THEN FindAny(rest, 3, "/?#") - 1 ELSE 0
Netloc(rest) == IF StartsWith(rest, "//") THEN SubSeq(rest, 3, NetlocEnd(rest)) ELSE ""
AfterNetloc(rest) ==
    IF StartsWith(rest, "//") THEN SubSeq(rest, NetlocEnd(rest) + 1, Len(rest)) ELSE rest

ParseAfterScheme(scheme, rest) ==
    [scheme |-> scheme,
     netloc |-> Netloc(rest),
     pathquery |-> SubSeq(AfterNetloc(rest), 1, FindAny(AfterNetloc(rest), 1, "#") - 1),
     fragment |-> SubSeq(AfterNetloc(rest), FindAny(AfterNetloc(rest), 1, "#") + 1,
                         Len(AfterNetloc(rest)))]

\* urlparse(url): scheme, netloc, the path with its parameters and query, and
\* the fragment.
urlparse(url) == ParseAfterScheme(UrlScheme(url), AfterScheme(url))

HasSchemeAndNetloc(parsed) == parsed.netloc # "" /\ parsed.scheme # ""

is_valid_url(url) == HasSchemeAndNetloc(urlparse(url))

\* Lines 29-30.
WithDefaultScheme(url) ==
    IF ~(StartsWith(url, "http://") \/ StartsWith(url, "https://"))
    THEN "https://" \o url ELSE url

\* A normalisation that keeps the fragment and the case of the host.
NormalizeKeepingAll(url) == WithDefaultScheme(url)

\* Last position of "/" in s, or 0.
RECURSIVE LastSlash(_, _)
LastSlash(s, i) == IF i = 0 THEN 0 ELSE IF CharAt(s, i) = "/" THEN i ELSE LastSlash(s, i - 1)

\* urlparse splits the parameters off the last segment of the path at its
\* first ";", and urlunparse writes the ";" back for non-empty parameters only.
UnparsePath(path, semi) ==
    IF semi = Len(path) THEN SubSeq(path, 1, semi - 1) ELSE path

\* urlunparse writes "?" for a non-empty query only.
UnparsePathQuery(pathquery, mark) ==
    UnparsePath(SubSeq(pathquery, 1, mark - 1),
                FindAny(SubSeq(pathquery, 1, mark - 1),
                        LastSlash(pathquery, mark - 1) + 1, ";"))
    \o (IF mark < Len(pathquery) THEN SubSeq(pathquery, mark, Len(pathquery)) ELSE "")

\* Lines 34-41: urlunparse with the netloc lower-cased and no fragment.
Unparse(parsed) ==
    parsed.scheme \o "://" \o Lower(parsed.netloc)
    \o UnparsePathQuery(parsed.pathquery, FindAny(parsed.pathquery, 1, "?"))

normalize_url(url) == Unparse(urlparse(WithDefaultScheme(url)))

\* Line 77.
IsTheOnlyMatch(extracted_urls, cleaned_text) ==
    Len(extracted_urls) = 1 /\ extracted_urls[1] = cleaned_text

\* Lines 73-80, on the stripped text.
UrlOnlyCleaned(cleaned_text) ==
    IF is_valid_url(cleaned_text)
       /\ IsTheOnlyMatch(extract_urls_from_text(cleaned_text), cleaned_text)
    THEN normalize_url(cleaned_text)
    ELSE ""

\* The result of is_url_only_text; None is modelled as "".
is_url_only_text(text) ==
    IF text = "" \/ Strip(text) = "" THEN "" ELSE UrlOnlyCleaned(Strip(text))

NormalizeAll(valid) == [i \in 1..Len(valid) |-> normalize_url(valid[i])]

\* process_text_workflow, lines 78-79.
DiscoverUrls(text) == NormalizeAll(SelectSeq(extract_urls_from_text(text), is_valid_url))

(***************************************************************************)
(* WorkflowResult (app/api/models.py) and the outcome of a call            *)
(***************************************************************************)
\* discovered_urls and errors are Optional lists: None or Lst(...).
WorkflowResult(source_type, source_content, extracted_data, discovered_urls, errors) ==
    [source_type |-> source_type,
     source_content |-> source_content,
     extracted_data |-> extracted_data,
     discovered_urls |-> discovered_urls,
     errors |-> errors]

NoResult == WorkflowResult("", "", EmptyRecord, None, None)

\* What a call of an entry point leaves behind: the shared record as the call
\* left it, and either the WorkflowResult it returned or the exception it
\* raised to its caller.
Returned(record, result) ==
    [raised |-> FALSE, exc |-> "", record |-> record, result |-> result]
Raised(record, exc) ==
    [raised |-> TRUE, exc |-> exc, record |-> record, result |-> NoResult]

\* A try block without its except clause: the exception reaches the caller.
TryWithoutExcept(body, source_type, source_content) == body

\* try: body / except Exception as e: return handler(str(e))
TryExcept(body, source_type, source_content) ==
    IF body.raised
    THEN Returned(body.record,
                  WorkflowResult(source_type, source_content, EmptyRecord, None,
                                 Lst(<<body.exc>>)))
    ELSE body

\* text[:500] + "..." if len(text) > 500 else text
TextPreview(text) == IF Len(text) > 500 THEN SubSeq(text, 1, 500) \o "..." ELSE text

\* f"OCR Text: {ocr_text[:200]}..." if len(ocr_text) > 200 else f"OCR Text: {ocr_text}"
OcrPreview(ocr_text) ==
    IF Len(ocr_text) > 200 THEN "OCR Text: " \o SubSeq(ocr_text, 1, 200) \o "..."
    ELSE "OCR Text: " \o ocr_text

(***************************************************************************)
(* The field-extraction backend: BaseLLMService.process_data               *)
(*                                                                         *)
(* A call either raises (GoogleAiService turns every failure, a response   *)
(* that is not JSON included, into RuntimeError) or returns a field map.   *)
(* What kind of object carries the field map is fixed per deployment:      *)
(*   "dict"   a plain dict, as BaseLLMService declares and GoogleAiService *)
(*            returns (json.loads);                                        *)
(*   "record" an EventRecord, as process_text_workflow uses its result     *)
(*            (source.dict() in _merge_event_data, extracted_data of       *)
(*            WorkflowResult).                                             *)
(***************************************************************************)
LlmKinds == {"dict", "record"}

LlmFailure == "LLM processing failed. Please check the API key and model output."

FieldMap(date, name, speakers) ==
    [EmptyRecord EXCEPT !["date"] = date, !["name"] = name, !["speakers"] = speakers]

\* The field maps the backend answers with in the model: one with every key,
\* one that lacks most keys and holds a key that is no EventRecord field, and
\* one that supplies an image reference of its own.
LlmAnswers ==
    {FieldMap(None, None, Lst(<<"Dana">>)),
     [date |-> Str("05.06.25"), venue |-> Str("Hall 1")],
     [FieldMap(Str("06.06.25"), Str("Expo"), None)
         EXCEPT !["IMAGE"] = Str("https://cdn.example/logo.png")]}

LlmOutcomes ==
    {[ok |-> FALSE, data |-> EmptyRecord]} \cup {[ok |-> TRUE, data |-> d] : d \in LlmAnswers}

\* A conversion without the filter of lines 53-55: every key is kept.
EventRecordKeepingKeys(data) ==
    [f \in FieldNames \cup DOMAIN data |-> IF f \in DOMAIN data THEN data[f] ELSE None]

\* A conversion that fills the fields the backend left out with a guess.
EventRecordGuessing(data) ==
    [f \in FieldNames |-> IF f \in DOMAIN data THEN data[f] ELSE Str("unknown")]

\* EventRecord(**filtered_data): the keys that are fields, the other fields
\* at their default.
EventRecordOf(data) == [f \in FieldNames |-> IF f \in DOMAIN data THEN data[f] ELSE None]

\* WorkflowOrchestrator._dict_to_event_record
DictToEventRecord(kind, data) ==
    IF kind = "dict" THEN EventRecordOf(data)
    ELSE [EmptyRecord EXCEPT !["Error"] =
             Str("Data conversion error: 'EventRecord' object has no attribute 'items'")]

(***************************************************************************)
(* WorkflowOrchestrator.process_text_workflow                              *)
(***************************************************************************)
\* Link discovery that ignores the depth.
DiscoveredAtAnyDepth(text, depth) == DiscoverUrls(text)

\* discovered_urls of lines 76-79
DiscoveredAt(text, depth) == IF depth = 0 THEN DiscoverUrls(text) ELSE <<>>

\* A text pipeline that notes a failure of the backend in the record.
ProcessTextBodyNoting(kind, text, record, depth, llm) ==
    IF ~llm.ok THEN Raised([record EXCEPT !["Error"] = Str(LlmFailure)], LlmFailure)
    ELSE IF kind = "dict"
    THEN Raised(record, "'dict' object has no attribute 'dict'")
    ELSE Returned(MergeEventData(record, EventRecordOf(llm.data)),
                  WorkflowResult("text", TextPreview(text), EventRecordOf(llm.data),
                                 Lst(DiscoveredAt(text, depth)), None))

ProcessTextBody(kind, text, record, depth, llm) ==
    IF ~llm.ok THEN Raised(record, LlmFailure)
    ELSE IF kind = "dict"
    THEN Raised(record, "'dict' object has no attribute 'dict'")
    ELSE Returned(MergeEventData(record, EventRecordOf(llm.data)),
                  WorkflowResult("text", TextPreview(text), EventRecordOf(llm.data),
                                 Lst(DiscoveredAt(text, depth)), None))

process_text_workflow(kind, text, record, depth, llm) ==
    TryExcept(ProcessTextBody(kind, text, record, depth, llm), "text", TextPreview(text))

(***************************************************************************)
(* WorkflowOrchestrator.process_image_workflow                             *)
(***************************************************************************)
\* What the environment does to one image: the load (decoding the data URI
\* or downloading the URL) succeeds or fails, optical recognition yields a
\* text ("" when nothing is recognised, when recognition fails inside
\* OCRService.extract_text, or when no service is configured), and the
\* backend answers.
ImageOutcome(load_ok, ocr_failed, ocr_text, llm) ==
    [load_ok |-> load_ok, ocr_failed |-> ocr_failed, ocr_text |-> ocr_text, llm |-> llm]

NoLlm == [ok |-> FALSE, data |-> EmptyRecord]

ImageOutcomes ==
    {ImageOutcome(FALSE, FALSE, "", NoLlm),
     ImageOutcome(TRUE, TRUE, "", NoLlm)}
    \cup {ImageOutcome(TRUE, FALSE, t, o) : t \in {" \n", "Expo 05.06.25"}, o \in LlmOutcomes}

\* any(getattr(extracted_data, field) for field in [date, name, start])
HasEventInfo(extracted_data) ==
    \E f \in {"date", "name", "start"} : Truthy(extracted_data[f])

\* A slot rule without its test for a free slot: the last image wins.
SaveImageUrlOverwriting(record, extracted_data, image_input) ==
    IF StartsWith(image_input, "http") /\ HasEventInfo(extracted_data)
    THEN [record EXCEPT !["IMAGE"] = Str(image_input)]
    ELSE record

\* Lines 179-183.
SaveImageUrl(record, extracted_data, image_input) ==
    IF StartsWith(image_input, "http") /\ HasEventInfo(extracted_data)
       /\ ~Truthy(record["IMAGE"])
    THEN [record EXCEPT !["IMAGE"] = Str(image_input)]
    ELSE record

\* Lines 143-156: the image is loaded, or the load raises.
ImageLoads(image_input, out) ==
    IF StartsWith(image_input, "data:image") THEN out.load_ok
    ELSE IF StartsWith(image_input, "http") THEN out.load_ok
    ELSE FALSE

ImageLoadError(image_input) ==
    IF StartsWith(image_input, "data:image") THEN "cannot identify image file"
    ELSE IF StartsWith(image_input, "http") THEN "Failed to download image: 404"
    ELSE "Invalid image input format"

\* Lines 176-189.
MergeImageData(record, extracted_data, image_input, ocr_text) ==
    Returned(SaveImageUrl(MergeEventData(record, extracted_data), extracted_data,
                          image_input),
             WorkflowResult("image", OcrPreview(ocr_text), extracted_data, None, None))

\* An image pipeline without lines 165-170: it asks the backend about any
\* recognised text, blank or not.
ProcessImageBodyAsking(kind, image_input, record, out) ==
    IF ~ImageLoads(image_input, out) THEN Raised(record, ImageLoadError(image_input))
    ELSE IF ~out.llm.ok THEN Raised(record, LlmFailure)
    ELSE MergeImageData(record, DictToEventRecord(kind, out.llm.data), image_input,
                        out.ocr_text)

ProcessImageBody(kind, image_input, record, out) ==
    IF ~ImageLoads(image_input, out) THEN Raised(record, ImageLoadError(image_input))
    ELSE IF Strip(out.ocr_text) = ""
    THEN Returned(record,
                  WorkflowResult("image", "No text found in image or OCR not available",
                                 EmptyRecord, None, None))
    ELSE IF ~out.llm.ok THEN Raised(record, LlmFailure)
    ELSE MergeImageData(record, DictToEventRecord(kind, out.llm.data), image_input,
                        out.ocr_text)

\* An image pipeline that takes the image slot before it loads the image.
ProcessImageSlotFirst(kind, image_input, record, out) ==
    TryExcept(ProcessImageBody(kind, image_input,
                               [record EXCEPT !["IMAGE"] = Str(image_input)], out),
              "image", "Error processing image")

process_image_workflow(kind, image_input, record, out) ==
    TryExcept(ProcessImageBody(kind, image_input, record, out),
              "image", "Error processing image")

(***************************************************************************)
(* WorkflowOrchestrator.process_pdf_workflow                               *)
(***************************************************************************)
\* _extract_pdf_text: the text of every page followed by a newline, stripped;
\* "" when the PDF cannot be read (pages = <<>> models that too).
RECURSIVE PagesText(_)
PagesText(pages) ==
    IF pages = <<>> THEN "" ELSE pages[1] \o "\n" \o PagesText(Tail(pages))

ExtractPdfText(pages) == Strip(PagesText(pages))

\* Line 216: result.source_type = "pdf"
Relabel(r, source_type) ==
    IF r.raised THEN r
    ELSE Returned(r.record, [r.result EXCEPT !.source_type = source_type])

\* A PDF pipeline that delegates one level deeper, where no link is looked for.
ProcessPdfBodyBelow(kind, pages, record, llm) ==
    IF Strip(ExtractPdfText(pages)) = ""
    THEN Returned(record,
                  WorkflowResult("pdf", "No text found in PDF", EmptyRecord, None, None))
    ELSE Relabel(process_text_workflow(kind, ExtractPdfText(pages), record, 1, llm), "pdf")

ProcessPdfBody(kind, pages, record, llm) ==
    IF Strip(ExtractPdfText(pages)) = ""
    THEN Returned(record,
                  WorkflowResult("pdf", "No text found in PDF", EmptyRecord, None, None))
    ELSE Relabel(process_text_workflow(kind, ExtractPdfText(pages), record, 0, llm), "pdf")

process_pdf_workflow(kind, pages, record, llm) ==
    TryExcept(ProcessPdfBody(kind, pages, record, llm), "pdf", "Error processing PDF")

(***************************************************************************)
(* WorkflowOrchestrator._extract_image_urls                                *)
(***************************************************************************)
\* re.findall(img_pattern, html_content) on pages whose image tags are
\* written <img src='...'>: the src of every tag, in page order.
ImgTagOpen == "<img src='"

\* Position of the quote that closes the src starting at b, or Len(s) + 1.
SrcEnd(s, b) == FindAny(s, b, "'\"")

\* img_pattern matches at i: the tag opens there and its src is not empty.
ImgMatchesAt(s, i) ==
    /\ HasPrefixAt(s, i, ImgTagOpen)
    /\ SrcEnd(s, i + Len(ImgTagOpen)) > i + Len(ImgTagOpen)
    /\ SrcEnd(s, i + Len(ImgTagOpen)) <= Len(s)

NextImgMatch(s, i) == FirstOf({j \in i..Len(s) : ImgMatchesAt(s, j)}, Len(s) + 1)

RECURSIVE FindImgSrcsFrom(_, _)
ImgSrcsMatchedAt(s, m) ==
    IF m > Len(s) THEN <<>>
    ELSE <<SubSeq(s, m + Len(ImgTagOpen), SrcEnd(s, m + Len(ImgTagOpen)) - 1)>>
         \o FindImgSrcsFrom(s, SrcEnd(s, m + Len(ImgTagOpen)) + 1)

FindImgSrcsFrom(s, i) == ImgSrcsMatchedAt(s, NextImgMatch(s, i))

\* The path of a parsed URL, and the directory it lies in ("/" at the root).
PathOf(parsed) == SubSeq(parsed.pathquery, 1, FindAny(parsed.pathquery, 1, "?") - 1)
DirOf(path) ==
    IF LastSlash(path, Len(path)) = 0 THEN "/" ELSE SubSeq(path, 1, LastSlash(path, Len(path)))

JoinParsed(parsed, ref) ==
    IF StartsWith(ref, "/") THEN parsed.scheme \o "://" \o parsed.netloc \o ref
    ELSE parsed.scheme \o "://" \o parsed.netloc \o DirOf(PathOf(parsed)) \o ref

\* urljoin(base_url, ref) for a reference that is a path.
urljoin(base_url, ref) == JoinParsed(urlparse(base_url), ref)

\* Lines 268-277.
AbsoluteImageUrls(matches, base_url) ==
    [i \in 1..Len(matches) |->
        IF StartsWith(matches[i], "http") THEN matches[i]
        ELSE urljoin(base_url, matches[i])]

extract_image_urls(html_content, base_url) ==
    AbsoluteImageUrls(FindImgSrcsFrom(html_content, 1), base_url)

\* Embedded images looked for at every depth.
ImagesAtAnyDepth(depth, html_content, base_url) ==
    extract_image_urls(html_content, base_url)

\* process_url_workflow, lines 108-110: images are looked for at depth 0 only.
ImagesAt(depth, html_content, base_url) ==
    IF depth = 0 THEN extract_image_urls(html_content, base_url) ELSE <<>>

\* image_urls[:3]
ImageLimit == 3
FirstImagesUncapped(image_urls) == image_urls
FirstImages(image_urls) ==
    SubSeq(image_urls, 1, IF Len(image_urls) < ImageLimit THEN Len(image_urls) ELSE ImageLimit)

(***************************************************************************)
(* The inputs of the model                                                 *)
(***************************************************************************)
\* The most image tags a scraped page holds.
MaxPageImages == 5

\* text_input of a request; "" stands for a missing text too (both falsy).
TextInputs ==
    {"",
     "  ",
     "Conference on 05.06.25 at https://events.example/x",
     " Visit http://a.com and https://b.com/p?q=1 today ",
     " https://Events.example/x "}

\* image_data of a request; "" stands for a missing image too (both falsy).
ImageInputs == {"", "data:image/png;base64,QUJD", "http://img.example/p.png", "poster.png"}

\* pdf_file of a request, as the texts of its pages.
NoPdf == [present |-> FALSE, pages |-> <<>>]
Pdf(pages) == [present |-> TRUE, pages |-> pages]
PdfInputs == {NoPdf, Pdf(<<>>), Pdf(<<"Expo 06.06.25", "https://events.example/pdf">>)}

\* What scrape_url answers with: page texts, followed by n image tags.
RECURSIVE ImageTags(_)
ImageTags(n) ==
    IF n = 0 THEN ""
    ELSE ImageTags(n - 1) \o ImgTagOpen \o "/i" \o CharAt(DigitChars, n + 1) \o ".png'>"

PageContents ==
    {"Expo at https://events.example/y " \o ImageTags(1)}
    \cup {"Expo 06.06.25 " \o ImageTags(n) : n \in 0..MaxPageImages}

ScrapeOutcomes ==
    {[ok |-> FALSE, content |-> ""]} \cup {[ok |-> TRUE, content |-> c] : c \in PageContents}

ScrapeFailure == "object str can't be used in 'await' expression"

(***************************************************************************)
(* State                                                                   *)
(***************************************************************************)
VARIABLES
    llm_kind,             \* the kind of object process_data returns
    text_input,           \* the request
    image_data,
    pdf_file,
    pc,                   \* position in run_scrape_endpoint
    event_record,         \* the shared EventRecord of the request
    all_discovered_urls,
    workflow_results,
    url_index,            \* position of the loop over all_discovered_urls
    url_call,             \* the process_url_workflow call in progress
    calls,                \* history: every sub-extraction invoked, in order
    backend_calls,        \* history: the process_data calls of the step just taken
    last,                 \* history: the entry-point call that completed last
    response,             \* what the endpoint answered
    persistent_data,      \* the module-level dict of endpoints.py, line 31
    now,                  \* what datetime.now().timestamp() reads
    output_sheet,         \* the rows written to the output sheet
    input_sheet,          \* the rows of the input sheet, below its header
    other                 \* the frame of the run_scrape request that is suspended

vars == <<llm_kind, text_input, image_data, pdf_file, pc, event_record,
          all_discovered_urls, workflow_results, url_index, url_call, calls,
          backend_calls, last, response, persistent_data, now, output_sheet,
          input_sheet, other>>

\* What outlives a request: the stored records, the clock, the two sheets.
server == <<persistent_data, now, output_sheet, input_sheet>>

request == <<llm_kind, text_input, image_data, pdf_file>>

\* One invocation of a sub-extraction, as the history keeps it: the entry
\* point, its depth, who called it, and what it was called on (for the text
\* of a scraped page: the URL of the page).
Call(op, arg, depth, caller) == [op |-> op, arg |-> arg, depth |-> depth, caller |-> caller]

\* A completed entry-point call: the record before and after it, the outcome,
\* and which collaborator failed during it ("" when none did).
Completed(op, arg, depth, caller, before, outcome, fault) ==
    [op |-> op, arg |-> arg, depth |-> depth, caller |-> caller, before |-> before,
     after |-> outcome.record, raised |-> outcome.raised, result |-> outcome.result,
     fault |-> fault]

NoCall == Completed("", "", 0, "", EmptyRecord, Returned(EmptyRecord, NoResult), "")

\* The frame of process_url_workflow between its awaits.
IdleUrlCall ==
    [stage |-> "idle", url |-> "", depth |-> 0, before |-> EmptyRecord,
     scraped_content |-> "", text_result |-> NoResult, image_urls |-> <<>>, img_index |-> 1]

NoResponse ==
    [status |-> 0, request_id |-> "", total_workflows |-> 0, discovered_urls_count |-> 0]

\* persistent_data = {}, and persistent_data[key] = value
NoData == [key \in {} |-> NoResponse]
Put(data, key, value) ==
    [k \in DOMAIN data \cup {key} |-> IF k = key THEN value ELSE data[k]]

\* del persistent_data[key]
Del(data, key) == [k \in DOMAIN data \ {key} |-> data[k]]

\* f"{datetime.now().timestamp()}" when the clock reads t (whole seconds).
RequestId(t) == ToString(t) \o ".0"

\* What run_scrape_endpoint stores for a request (lines 314-317).
StoredRun(record, results) == [event_record |-> record, workflow_results |-> results]

\* The frame of a run_scrape_endpoint call, as it is kept while the call is
\* suspended at an await: its arguments, its locals and its position, with
\* the history of the call.
Frame(text, image, pdf, at, record, urls, results, index, ucall, made, asked, done, resp) ==
    [text_input |-> text, image_data |-> image, pdf_file |-> pdf, pc |-> at,
     event_record |-> record, all_discovered_urls |-> urls,
     workflow_results |-> results, url_index |-> index, url_call |-> ucall,
     calls |-> made, backend_calls |-> asked, last |-> done, response |-> resp]

\* No request is suspended.
NoFrame ==
    Frame("", "", NoPdf, "none", EmptyRecord, <<>>, <<>>, 1, IdleUrlCall, <<>>, <<>>,
          NoCall, NoResponse)

Init ==
    /\ llm_kind \in LlmKinds
    /\ text_input \in TextInputs
    /\ image_data \in ImageInputs
    /\ pdf_file \in PdfInputs
    /\ pc = "text"
    /\ event_record = EmptyRecord
    /\ all_discovered_urls = <<>>
    /\ workflow_results = <<>>
    /\ url_index = 1
    /\ url_call = IdleUrlCall
    /\ calls = <<>>
    /\ backend_calls = <<>>
    /\ last = NoCall
    /\ response = NoResponse
    /\ persistent_data = NoData
    /\ now = 1
    /\ output_sheet = <<>>
    /\ input_sheet = <<>>
    /\ other = NoFrame

(***************************************************************************)
(* run_scrape_endpoint                                                     *)
(***************************************************************************)
\* The fault the backend caused in a text call: the call fails when the
\* backend raises, and when it returns a plain dict (the merge then raises).
TextFault(kind, llm) == IF ~llm.ok THEN "llm" ELSE IF kind = "dict" THEN "merge" ELSE ""

\* What went wrong in an image call: the load, the recognition, the backend;
\* "notext" when the recognition worked and recovered no text.
ImageFault(kind, image_input, out) ==
    IF ~ImageLoads(image_input, out) THEN "load"
    ELSE IF out.ocr_failed THEN "ocr"
    ELSE IF Strip(out.ocr_text) = "" THEN "notext"
    ELSE IF ~out.llm.ok THEN "llm"
    ELSE ""

\* The schema process_image_workflow passes (line 173): schema_content, by its
\* keys; those of the fallback of lines 42-46 stand for those of the file.
schema_content == {"date", "name", "description"}

\* The schema process_text_workflow passes (line 70): {}.
TextSchema == {}

\* One process_data call, as the history keeps it.
BackendCall(data, schema, llm) == [data |-> data, schema |-> schema, answer |-> llm]

\* The backend calls of one process_text_workflow call: line 70, always.
TextAsks(text, llm) == <<BackendCall(text, TextSchema, llm)>>

\* Those of one process_image_workflow call: line 173, reached when the image
\* is loaded and the recognised text is not blank.
ImageAsks(image_input, out) ==
    IF ImageLoads(image_input, out) /\ Strip(out.ocr_text) # ""
    THEN <<BackendCall(out.ocr_text, schema_content, out.llm)>>
    ELSE <<>>

\* Those of one process_pdf_workflow call: through process_text_workflow, when
\* the PDF has text.
PdfAsks(pages, llm) ==
    IF Strip(ExtractPdfText(pages)) # "" THEN TextAsks(ExtractPdfText(pages), llm)
    ELSE <<>>

\* Lines 283-285 and 289-291: the result is kept and its links collected.
\* An exception of a depth-0 call reaches line 329: the request fails.
AfterDepth0(outcome, collect, next_pc) ==
    /\ event_record' = outcome.record
    /\ IF outcome.raised
       THEN /\ pc' = "failed"
            /\ response' = [NoResponse EXCEPT !.status = 500]
            /\ UNCHANGED <<workflow_results, all_discovered_urls>>
       ELSE /\ pc' = next_pc
            /\ workflow_results' = Append(workflow_results, outcome.result)
            /\ all_discovered_urls' =
                   IF collect /\ Truthy(outcome.result.discovered_urls)
                   THEN all_discovered_urls \o outcome.result.discovered_urls.l
                   ELSE all_discovered_urls
            /\ UNCHANGED response

\* A loop over the discovered URLs that a failure ends.
AfterDepth1Aborting(outcome) ==
    /\ event_record' = outcome.record
    /\ workflow_results' =
           IF outcome.raised THEN workflow_results
           ELSE Append(workflow_results, outcome.result)
    /\ url_index' = IF outcome.raised \/ Truthy(outcome.result.errors)
                    THEN Len(all_discovered_urls) + 1
                    ELSE url_index + 1
    /\ UNCHANGED <<pc, all_discovered_urls, response>>

\* A loop over the discovered URLs that tries a failed URL again.
AfterDepth1Retrying(outcome) ==
    /\ event_record' = outcome.record
    /\ workflow_results' =
           IF outcome.raised THEN workflow_results
           ELSE Append(workflow_results, outcome.result)
    /\ url_index' = IF outcome.raised \/ Truthy(outcome.result.errors)
                    THEN url_index
                    ELSE url_index + 1
    /\ UNCHANGED <<pc, all_discovered_urls, response>>

\* Lines 307-310: the result of a discovered URL is kept; an exception is
\* logged and the loop goes on.
AfterDepth1(outcome) ==
    /\ event_record' = outcome.record
    /\ workflow_results' =
           IF outcome.raised THEN workflow_results
           ELSE Append(workflow_results, outcome.result)
    /\ url_index' = url_index + 1
    /\ UNCHANGED <<pc, all_discovered_urls, response>>

\* Line 277: no text, or only whitespace.
SkipText ==
    /\ pc = "text"
    /\ (text_input = "" \/ Strip(text_input) = "")
    /\ pc' = "image"
    /\ backend_calls' = <<>>
    /\ UNCHANGED <<server, other, request, event_record, all_discovered_urls, workflow_results,
                   url_index, url_call, calls, last, response>>

\* A driver that hands a text that is one URL to both pipelines: the text
\* pipeline here, the URL pipeline in StartUrlOnly.
ProcessTextInputAlways ==
    /\ pc = "text"
    /\ ~(text_input = "" \/ Strip(text_input) = "")
    /\ \E llm \in LlmOutcomes :
       \E outcome \in {process_text_workflow(llm_kind, Strip(text_input), event_record,
                                             0, llm)} :
          /\ AfterDepth0(outcome, TRUE, IF is_url_only_text(text_input) = ""
                                        THEN "image" ELSE "text")
          /\ calls' = Append(calls, Call("text", Strip(text_input), 0, "endpoint"))
          /\ backend_calls' = TextAsks(Strip(text_input), llm)
          /\ last' = Completed("text", Strip(text_input), 0, "endpoint", event_record,
                               outcome, TextFault(llm_kind, llm))
    /\ UNCHANGED <<server, other, request, url_index, url_call>>

\* Lines 286-291: free text goes to process_text_workflow at depth 0.
ProcessTextInput ==
    /\ pc = "text"
    /\ ~(text_input = "" \/ Strip(text_input) = "")
    /\ is_url_only_text(text_input) = ""
    /\ \E llm \in LlmOutcomes :
       \E outcome \in {process_text_workflow(llm_kind, Strip(text_input), event_record,
                                             0, llm)} :
          /\ AfterDepth0(outcome, TRUE, "image")
          /\ calls' = Append(calls, Call("text", Strip(text_input), 0, "endpoint"))
          /\ backend_calls' = TextAsks(Strip(text_input), llm)
          /\ last' = Completed("text", Strip(text_input), 0, "endpoint", event_record,
                               outcome, TextFault(llm_kind, llm))
    /\ UNCHANGED <<server, other, request, url_index, url_call>>

\* Lines 279-282: a text that is one URL goes to process_url_workflow at depth 0.
StartUrlOnly ==
    /\ pc = "text"
    /\ url_call.stage = "idle"
    /\ ~(text_input = "" \/ Strip(text_input) = "")
    /\ is_url_only_text(text_input) # ""
    /\ url_call' = [IdleUrlCall EXCEPT !.stage = "scrape",
                                       !.url = is_url_only_text(text_input),
                                       !.depth = 0,
                                       !.before = event_record]
    /\ calls' = Append(calls, Call("url", is_url_only_text(text_input), 0, "endpoint"))
    /\ backend_calls' = <<>>
    /\ pc' = "text_url"
    /\ UNCHANGED <<server, other, request, event_record, all_discovered_urls, workflow_results,
                   url_index, last, response>>

\* Lines 294-296.
SkipImage ==
    /\ pc = "image"
    /\ image_data = ""
    /\ pc' = "pdf"
    /\ backend_calls' = <<>>
    /\ UNCHANGED <<server, other, request, event_record, all_discovered_urls, workflow_results,
                   url_index, url_call, calls, last, response>>

ProcessImageInput ==
    /\ pc = "image"
    /\ image_data # ""
    /\ \E out \in ImageOutcomes :
       \E outcome \in {process_image_workflow(llm_kind, image_data, event_record, out)} :
          /\ AfterDepth0(outcome, FALSE, "pdf")
          /\ calls' = Append(calls, Call("image", image_data, 0, "endpoint"))
          /\ backend_calls' = ImageAsks(image_data, out)
          /\ last' = Completed("image", image_data, 0, "endpoint", event_record,
                               outcome, ImageFault(llm_kind, image_data, out))
    /\ UNCHANGED <<server, other, request, url_index, url_call>>

\* Lines 299-302.
SkipPdf ==
    /\ pc = "pdf"
    /\ ~pdf_file.present
    /\ pc' = "urls"
    /\ backend_calls' = <<>>
    /\ UNCHANGED <<server, other, request, event_record, all_discovered_urls, workflow_results,
                   url_index, url_call, calls, last, response>>

ProcessPdfInput ==
    /\ pc = "pdf"
    /\ pdf_file.present
    /\ \E llm \in LlmOutcomes :
       \E outcome \in {process_pdf_workflow(llm_kind, pdf_file.pages, event_record, llm)} :
          /\ AfterDepth0(outcome, FALSE, "urls")
          /\ calls' = Append(calls, Call("pdf", PagesText(pdf_file.pages), 0, "endpoint"))
          /\ backend_calls' = PdfAsks(pdf_file.pages, llm)
          /\ last' = Completed("pdf", PagesText(pdf_file.pages), 0, "endpoint",
                               event_record, outcome,
                               IF ExtractPdfText(pdf_file.pages) # ""
                               THEN TextFault(llm_kind, llm) ELSE "")
    /\ UNCHANGED <<server, other, request, url_index, url_call>>

\* A driver that starts on the discovered URLs before it has read the PDF.
StartDiscoveredUrlEarly ==
    /\ pc \in {"pdf", "urls"}
    /\ url_call.stage = "idle"
    /\ url_index <= Len(all_discovered_urls)
    /\ url_call' = [IdleUrlCall EXCEPT !.stage = "scrape",
                                       !.url = all_discovered_urls[url_index],
                                       !.depth = 1,
                                       !.before = event_record]
    /\ calls' = Append(calls, Call("url", all_discovered_urls[url_index], 1, "endpoint"))
    /\ backend_calls' = <<>>
    /\ UNCHANGED <<server, other, request, pc, event_record, all_discovered_urls, workflow_results,
                   url_index, last, response>>

\* Lines 305-307: the next discovered URL goes to process_url_workflow at depth 1.
StartDiscoveredUrl ==
    /\ pc = "urls"
    /\ url_call.stage = "idle"
    /\ url_index <= Len(all_discovered_urls)
    /\ url_call' = [IdleUrlCall EXCEPT !.stage = "scrape",
                                       !.url = all_discovered_urls[url_index],
                                       !.depth = 1,
                                       !.before = event_record]
    /\ calls' = Append(calls, Call("url", all_discovered_urls[url_index], 1, "endpoint"))
    /\ backend_calls' = <<>>
    /\ UNCHANGED <<server, other, request, pc, event_record, all_discovered_urls, workflow_results,
                   url_index, last, response>>

\* A response whose summary counts the sub-extractions invoked, not the
\* results kept.
RespondCountingCalls ==
    /\ pc = "urls"
    /\ url_call.stage = "idle"
    /\ url_index > Len(all_discovered_urls)
    /\ pc' = "done"
    /\ persistent_data' = Put(persistent_data, RequestId(now),
                               StoredRun(event_record, workflow_results))
    /\ response' = [status |-> 200,
                    request_id |-> RequestId(now),
                    total_workflows |-> Len(calls),
                    discovered_urls_count |-> Len(all_discovered_urls)]
    /\ backend_calls' = <<>>
    /\ UNCHANGED <<now, output_sheet, input_sheet, other, request, event_record,
                   all_discovered_urls, workflow_results, url_index, url_call, calls,
                   last>>

\* Lines 312-327: the record is stored and the response built.
Respond ==
    /\ pc = "urls"
    /\ url_call.stage = "idle"
    /\ url_index > Len(all_discovered_urls)
    /\ pc' = "done"
    /\ persistent_data' = Put(persistent_data, RequestId(now),
                               StoredRun(event_record, workflow_results))
    /\ response' = [status |-> 200,
                    request_id |-> RequestId(now),
                    total_workflows |-> Len(workflow_results),
                    discovered_urls_count |-> Len(all_discovered_urls)]
    /\ backend_calls' = <<>>
    /\ UNCHANGED <<now, output_sheet, input_sheet, other, request, event_record,
                   all_discovered_urls, workflow_results, url_index, url_call, calls,
                   last>>

(***************************************************************************)
(* WorkflowOrchestrator.process_url_workflow, one step per await           *)
(***************************************************************************)
\* The call returns to run_scrape_endpoint: to lines 283-285 at depth 0, to
\* lines 308-310 at depth 1.
UrlFinish(body, fault) ==
    \E outcome \in {TryExcept(body, "url", url_call.url)} :
       /\ last' = Completed("url", url_call.url, url_call.depth, "endpoint",
                            url_call.before, outcome, fault)
       /\ url_call' = IdleUrlCall
       /\ IF url_call.depth = 0
          THEN AfterDepth0(outcome, TRUE, "image") /\ UNCHANGED url_index
          ELSE AfterDepth1(outcome)

\* Line 102: the page is scraped, or the scrape raises (lines 130-136).
UrlScrape ==
    /\ url_call.stage = "scrape"
    /\ \E sc \in ScrapeOutcomes :
          IF sc.ok
          THEN /\ url_call' = [url_call EXCEPT !.stage = "text",
                                               !.scraped_content = sc.content]
               /\ UNCHANGED <<pc, event_record, all_discovered_urls, workflow_results,
                              url_index, last, response>>
          ELSE UrlFinish(Raised(event_record, ScrapeFailure), "scrape")
    /\ backend_calls' = <<>>
    /\ UNCHANGED <<server, other, request, calls>>

\* Lines 105-110: the scraped text goes through process_text_workflow at the
\* same depth; at depth 0 the image references of the page are collected.
\* process_text_workflow returns a result whatever fails in it; what it would
\* raise would leave process_url_workflow through lines 130-136.
UrlText ==
    /\ url_call.stage = "text"
    /\ \E llm \in LlmOutcomes :
       \E r \in {process_text_workflow(llm_kind, url_call.scraped_content,
                                       event_record, url_call.depth, llm)} :
          /\ backend_calls' = TextAsks(url_call.scraped_content, llm)
          /\ IF r.raised
             THEN UrlFinish(r, "text")
             ELSE /\ event_record' = r.record
                  /\ url_call' =
                        [url_call EXCEPT
                            !.stage = "images",
                            !.text_result = r.result,
                            !.image_urls = ImagesAt(url_call.depth,
                                                    url_call.scraped_content,
                                                    url_call.url),
                            !.img_index = 1]
                  /\ last' = Completed("text", url_call.scraped_content, url_call.depth,
                                       "url", event_record, r, TextFault(llm_kind, llm))
                  /\ UNCHANGED <<pc, all_discovered_urls, workflow_results, url_index,
                                 response>>
    /\ calls' = Append(calls, Call("text", url_call.url, url_call.depth, "url"))
    /\ UNCHANGED <<server, other, request>>

\* Lines 117-119: the URL of an image that yielded event information takes
\* the image slot, if the slot is free.
KeepImageUrl(record, img_result, img_url) ==
    IF HasEventInfo(img_result.extracted_data) /\ ~Truthy(record["IMAGE"])
    THEN [record EXCEPT !["IMAGE"] = Str(img_url)]
    ELSE record

\* A loop over the images of a page that the first failing image ends.
UrlImageAborting ==
    /\ url_call.stage = "images"
    /\ url_call.img_index <= Len(FirstImages(url_call.image_urls))
    /\ \E out \in ImageOutcomes :
       \E img_url \in {url_call.image_urls[url_call.img_index]} :
       \E r \in {process_image_workflow(llm_kind, img_url, event_record, out)} :
          /\ event_record' = IF r.raised THEN r.record
                             ELSE KeepImageUrl(r.record, r.result, img_url)
          /\ calls' = Append(calls, Call("image", img_url, url_call.depth, "url"))
          /\ backend_calls' = ImageAsks(img_url, out)
          /\ last' = Completed("image", img_url, url_call.depth, "url", event_record,
                               r, ImageFault(llm_kind, img_url, out))
          /\ url_call' = [url_call EXCEPT !.img_index =
                              IF r.raised \/ Truthy(r.result.errors)
                              THEN Len(FirstImages(url_call.image_urls)) + 1
                              ELSE url_call.img_index + 1]
    /\ UNCHANGED <<server, other, request, pc, all_discovered_urls, workflow_results, url_index,
                   response>>

\* Lines 113-121: one of the first images of the page goes through
\* process_image_workflow; what it raises is logged and the loop goes on.
UrlImage ==
    /\ url_call.stage = "images"
    /\ url_call.img_index <= Len(FirstImages(url_call.image_urls))
    /\ \E out \in ImageOutcomes :
       \E img_url \in {url_call.image_urls[url_call.img_index]} :
       \E r \in {process_image_workflow(llm_kind, img_url, event_record, out)} :
          /\ event_record' = IF r.raised THEN r.record
                             ELSE KeepImageUrl(r.record, r.result, img_url)
          /\ calls' = Append(calls, Call("image", img_url, url_call.depth, "url"))
          /\ backend_calls' = ImageAsks(img_url, out)
          /\ last' = Completed("image", img_url, url_call.depth, "url", event_record,
                               r, ImageFault(llm_kind, img_url, out))
    /\ url_call' = [url_call EXCEPT !.img_index = url_call.img_index + 1]
    /\ UNCHANGED <<server, other, request, pc, all_discovered_urls, workflow_results, url_index,
                   response>>

\* Lines 123-128.
UrlReturn ==
    /\ url_call.stage = "images"
    /\ url_call.img_index > Len(FirstImages(url_call.image_urls))
    /\ UrlFinish(Returned(event_record,
                          WorkflowResult("url", url_call.url,
                                         url_call.text_result.extracted_data,
                                         IF url_call.depth = 0
                                         THEN url_call.text_result.discovered_urls
                                         ELSE None,
                                         None)),
                 IF Truthy(url_call.text_result.errors) THEN "text" ELSE "")
    /\ backend_calls' = <<>>
    /\ UNCHANGED <<server, other, request, calls>>

Next ==
    \/ SkipText
    \/ ProcessTextInput
    \/ StartUrlOnly
    \/ SkipImage
    \/ ProcessImageInput
    \/ SkipPdf
    \/ ProcessPdfInput
    \/ StartDiscoveredUrl
    \/ UrlScrape
    \/ UrlText
    \/ UrlImage
    \/ UrlReturn
    \/ Respond

Spec == Init /\ [][Next]_vars

(***************************************************************************)
(* run_scrape_endpoint under the scheduling of the event loop: the         *)
(* coroutine of the request is resumed whenever the call it awaits has     *)
(* returned or failed, so a step of the request that stays possible is     *)
(* taken.  The requests are those of Init with one text of each kind, one  *)
(* image and one PDF.  For the steps that read the text of the request or  *)
(* of the page, "possible" is stated by the position of the request: at    *)
(* line 277 one of the three text steps can be taken, and a scraped page   *)
(* can always be handed to process_text_workflow.                          *)
(***************************************************************************)
FairInit ==
    /\ llm_kind \in LlmKinds
    /\ text_input \in {"", " https://Events.example/x ",
                       "Conference on 05.06.25 at https://events.example/x"}
    /\ image_data \in {"", "data:image/png;base64,QUJD"}
    /\ pdf_file \in {NoPdf, Pdf(<<"Expo 06.06.25", "https://events.example/pdf">>)}
    /\ pc = "text"
    /\ event_record = EmptyRecord
    /\ all_discovered_urls = <<>>
    /\ workflow_results = <<>>
    /\ url_index = 1
    /\ url_call = IdleUrlCall
    /\ calls = <<>>
    /\ backend_calls = <<>>
    /\ last = NoCall
    /\ response = NoResponse
    /\ persistent_data = NoData
    /\ now = 1
    /\ output_sheet = <<>>
    /\ input_sheet = <<>>
    /\ other = NoFrame

\* The steps whose guard reads no text.
LightNext ==
    \/ SkipText
    \/ SkipImage
    \/ ProcessImageInput
    \/ SkipPdf
    \/ ProcessPdfInput
    \/ StartDiscoveredUrl
    \/ UrlScrape
    \/ UrlImage
    \/ UrlReturn
    \/ Respond

\* Line 277 is left: the request does not stay before its text for ever.
TextProgress ==
    []<>(pc # "text") \/ []<><<SkipText \/ ProcessTextInput \/ StartUrlOnly>>_vars

\* Line 105 is left: a scraped page does not wait for its text step for ever.
UrlTextProgress == []<>(url_call.stage # "text") \/ []<><<UrlText>>_vars

SpecFair ==
    FairInit /\ [][Next]_vars /\ WF_vars(LightNext) /\ TextProgress /\ UrlTextProgress

(***************************************************************************)
(* _merge_event_data on its own: one merge of a source into a target, both *)
(* drawn from the records below.  The target is event_record; last keeps   *)
(* the target before the merge, the source (as extracted_data) and the     *)
(* target after it.                                                        *)
(***************************************************************************)
MergeTargets ==
    {[EmptyRecord EXCEPT !["date"] = d, !["name"] = n, !["speakers"] = sp, !["Error"] = e] :
        d \in {None, Str(""), Str("05.06.25")},
        n \in {None, Str("Expo")},
        sp \in {None, Lst(<<>>), Lst(<<"Dana">>)},
        e \in {None, Str(""), Str("Conflict in date: '05.06.25' vs '07.06.25'")}}

MergeSources ==
    {[EmptyRecord EXCEPT !["date"] = d, !["name"] = n, !["speakers"] = sp, !["Error"] = e] :
        d \in {None, Str(""), Str("05.06.25"), Str("06.06.25")},
        n \in {None, Str("Fair")},
        sp \in {None, Lst(<<>>), Lst(<<"Dana">>), Lst(<<"Eli">>)},
        e \in {None, Str("Data conversion error")}}

MergeInit ==
    /\ llm_kind = "record"
    /\ text_input = ""
    /\ image_data = ""
    /\ pdf_file = NoPdf
    /\ pc = "merge"
    /\ event_record \in MergeTargets
    /\ all_discovered_urls = <<>>
    /\ workflow_results = <<>>
    /\ url_index = 1
    /\ url_call = IdleUrlCall
    /\ calls = <<>>
    /\ backend_calls = <<>>
    /\ last = NoCall
    /\ response = NoResponse
    /\ persistent_data = NoData
    /\ now = 1
    /\ output_sheet = <<>>
    /\ input_sheet = <<>>
    /\ other = NoFrame

MergeCall ==
    /\ pc = "merge"
    /\ \E source \in MergeSources :
       \E merged \in {MergeEventData(event_record, source)} :
          /\ event_record' = merged
          /\ last' = Completed("merge", "", 0, "", event_record,
                               Returned(merged, WorkflowResult("", "", source, None, None)),
                               "")
    /\ pc' = "merged"
    /\ backend_calls' = <<>>
    /\ UNCHANGED <<server, other, request, all_discovered_urls, workflow_results, url_index, url_call,
                   calls, response>>

MergeNext == MergeCall

SpecMerge == MergeInit /\ [][MergeNext]_vars

\* The same merge applied a second time: _merge_event_data(target, source)
\* with the target the first call left and the source it was given.  last
\* keeps the first call.
MergeAgain ==
    /\ pc = "merged"
    /\ event_record' = MergeEventData(event_record, last.result.extracted_data)
    /\ pc' = "merged_again"
    /\ backend_calls' = <<>>
    /\ UNCHANGED <<server, other, request, all_discovered_urls, workflow_results, url_index,
                   url_call, calls, last, response>>

MergeTwiceNext == MergeCall \/ MergeAgain

SpecMergeTwice == MergeInit /\ [][MergeTwiceNext]_vars

(***************************************************************************)
(* is_url_only_text and the link discovery of process_text_workflow on     *)
(* their own: one text, drawn from the texts below, is classified and then *)
(* processed as free text at depth 0.  last keeps each call; the value     *)
(* is_url_only_text returned is the source_content of its result.          *)
(***************************************************************************)
UrlTexts ==
    {prefix \o scheme \o host \o path \o suffix :
        prefix \in {"", " ", "see "},
        scheme \in {"https://", "http://", "ftp://", ""},
        host \in {"a.com", "A.com", ""},
        path \in {"", "/x", "/x?q=1", "/x?", "/x#top"},
        suffix \in {"", " ", " now", " https://B.com/y"}}

UrlInit ==
    /\ llm_kind \in LlmKinds
    /\ text_input \in UrlTexts
    /\ image_data = ""
    /\ pdf_file = NoPdf
    /\ pc = "classify"
    /\ event_record = EmptyRecord
    /\ all_discovered_urls = <<>>
    /\ workflow_results = <<>>
    /\ url_index = 1
    /\ url_call = IdleUrlCall
    /\ calls = <<>>
    /\ backend_calls = <<>>
    /\ last = NoCall
    /\ response = NoResponse
    /\ persistent_data = NoData
    /\ now = 1
    /\ output_sheet = <<>>
    /\ input_sheet = <<>>
    /\ other = NoFrame

ClassifyText ==
    /\ pc = "classify"
    /\ last' = Completed("is_url_only_text", text_input, 0, "", event_record,
                         Returned(event_record,
                                  WorkflowResult("", is_url_only_text(text_input),
                                                 EmptyRecord, None, None)),
                         "")
    /\ pc' = "process"
    /\ backend_calls' = <<>>
    /\ UNCHANGED <<server, other, request, event_record, all_discovered_urls, workflow_results,
                   url_index, url_call, calls, response>>

ProcessText ==
    /\ pc = "process"
    /\ \E llm \in LlmOutcomes :
       \E outcome \in {process_text_workflow(llm_kind, text_input, event_record, 0, llm)} :
          /\ event_record' = outcome.record
          /\ last' = Completed("text", text_input, 0, "", event_record, outcome,
                               TextFault(llm_kind, llm))
          /\ backend_calls' = TextAsks(text_input, llm)
    /\ pc' = "processed"
    /\ UNCHANGED <<server, other, request, all_discovered_urls, workflow_results, url_index, url_call,
                   calls, response>>

UrlNext ==
    \/ ClassifyText
    \/ ProcessText

SpecUrl == UrlInit /\ [][UrlNext]_vars

(***************************************************************************)
(* The endpoints around the stored records: /scrape, /confirm,             *)
(* /process-sheet and /write_to_sheet, served while one run_scrape request *)
(* (an image, no text, no PDF) is in progress.  Each is one step: none of  *)
(* them awaits.  last keeps the endpoint that answered last and what it    *)
(* was called on, response its status.                                     *)
(***************************************************************************)
\* The most rows the output sheet holds.
MaxRows == 1

StoreUrl == "https://events.example/x"
UnknownUrl == "https://events.example/none"

\* GoogleSheetsService.write_event_record, lines 236-247: one cell per
\* column, the names of a list joined, None as "".
NonEmptyStr(x) == x # ""
EventCell(v) ==
    IF v.k = "list" THEN JoinWith(", ", SelectSeq(v.l, NonEmptyStr))
    ELSE IF v.k = "none" THEN ""
    ELSE v.s
EventRow(record) == [i \in 1..Len(FieldOrder) |-> EventCell(record[FieldOrder[i]])]

\* datetime.now().strftime("%Y-%m-%d %H:%M:%S") when the clock reads t.
Strftime(t) == "1970-01-01 00:00:0" \o ToString(t)

\* GoogleSheetsService.write_data, lines 175-187: the time, the URL, one cell
\* per key of the data, "Success" and "".
DataKeyOrder == FieldOrder \o <<"venue">>
DataKeys(data) == SelectSeq(DataKeyOrder, LAMBDA k : k \in DOMAIN data)
DataCell(v) ==
    IF v.k = "list" THEN JoinWith(", ", v.l)
    ELSE IF Truthy(v) THEN v.s
    ELSE ""
DataRow(t, url, data) ==
    <<Strftime(t), url>>
        \o [i \in 1..Len(DataKeys(data)) |-> DataCell(data[DataKeys(data)[i]])]
        \o <<"Success", "">>

\* What run_scrape_endpoint stored is no row for write_data: joining its
\* results (line 179) or inserting its record (line 191) raises, and
\* write_data returns False.
IsStoredRun(value) == "event_record" \in DOMAIN value

\* GoogleSheetsService.get_next_url: the row of the first URL below the
\* header, 0 when there is none.
NextUrlRow(sheet) == FirstOf({i + 1 : i \in {j \in DOMAIN sheet : Strip(sheet[j]) # ""}}, 0)

\* input_sheet.delete_rows(row_number)
DeleteRow(sheet, row_number) ==
    IF row_number - 1 \in DOMAIN sheet
    THEN SubSeq(sheet, 1, row_number - 2) \o SubSeq(sheet, row_number, Len(sheet))
    ELSE sheet

InputSheets == {<<>>, <<"", " " \o StoreUrl \o " ">>}

StoreInit ==
    /\ llm_kind = "dict"
    /\ text_input = ""
    /\ image_data \in {"", "data:image/png;base64,QUJD"}
    /\ pdf_file = NoPdf
    /\ pc = "text"
    /\ event_record = EmptyRecord
    /\ all_discovered_urls = <<>>
    /\ workflow_results = <<>>
    /\ url_index = 1
    /\ url_call = IdleUrlCall
    /\ calls = <<>>
    /\ backend_calls = <<>>
    /\ last = NoCall
    /\ response = NoResponse
    /\ persistent_data = NoData
    /\ now = 1
    /\ output_sheet = <<>>
    /\ input_sheet \in InputSheets
    /\ other = NoFrame

\* The endpoint answers: a JSONResponse, or the HTTPException its handler
\* raises.
Answered(op, arg, status, fault) ==
    /\ last' = Completed(op, arg, 0, "client", EmptyRecord,
                         Returned(EmptyRecord, NoResult), fault)
    /\ response' = [NoResponse EXCEPT !.status = status]
    /\ backend_calls' = <<>>
    /\ UNCHANGED <<request, pc, event_record, all_discovered_urls, workflow_results,
                   url_index, url_call, calls, now, other>>

\* ScrapingService.process_url: the page is scraped and the backend asked;
\* what either raises is raised as RuntimeError.
ProcessUrlWorks(scraped, llm) == scraped /\ llm.ok

\* scrape_and_process, lines 88-94.
ScrapeAndProcess ==
    \E scraped \in BOOLEAN : \E llm \in LlmOutcomes :
        IF ProcessUrlWorks(scraped, llm)
        THEN /\ persistent_data' = Put(persistent_data, StoreUrl, llm.data)
             /\ Answered("scrape", StoreUrl, 200, "")
             /\ UNCHANGED <<output_sheet, input_sheet>>
        ELSE /\ Answered("scrape", StoreUrl, 500, IF scraped THEN "llm" ELSE "scrape")
             /\ UNCHANGED <<persistent_data, output_sheet, input_sheet>>

\* The data of /confirm: a URL, and a row number (0 for none).
ConfirmUrls == {StoreUrl, UnknownUrl, RequestId(1)}
RowNumbers == {0, 3}

\* After the output write of /confirm and /process-sheet: lines 121-142 and
\* 171-188.
DeleteQueued(op, url, row_number, deleted) ==
    IF row_number = 0
    THEN Answered(op, url, 200, "") /\ UNCHANGED input_sheet
    ELSE IF deleted
    THEN Answered(op, url, 200, "") /\ input_sheet' = DeleteRow(input_sheet, row_number)
    ELSE Answered(op, url, 207, "delete") /\ UNCHANGED input_sheet

\* confirm_data, lines 111-144.  The HTTPException of line 114 is caught at
\* line 143 and raised again with status 500.
ConfirmData ==
    \E url \in ConfirmUrls : \E row_number \in RowNumbers :
    \E written \in BOOLEAN : \E deleted \in BOOLEAN :
        IF url \notin DOMAIN persistent_data
        THEN /\ Answered("confirm", url, 500, "not_found")
             /\ UNCHANGED <<persistent_data, output_sheet, input_sheet>>
        ELSE IF IsStoredRun(persistent_data[url]) \/ ~written
        THEN /\ Answered("confirm", url, 500, "write")
             /\ UNCHANGED <<persistent_data, output_sheet, input_sheet>>
        ELSE /\ Len(output_sheet) < MaxRows
             /\ output_sheet' = Append(output_sheet,
                                       DataRow(now, url, persistent_data[url]))
             /\ UNCHANGED persistent_data
             /\ DeleteQueued("confirm", url, row_number, deleted)

\* A /process-sheet that removes the row before it writes the data.
ProcessSheetDeletingFirst ==
    IF NextUrlRow(input_sheet) = 0
    THEN /\ Answered("process_sheet", "", 200, "")
         /\ UNCHANGED <<persistent_data, output_sheet, input_sheet>>
    ELSE \E scraped \in BOOLEAN : \E llm \in LlmOutcomes :
         \E written \in BOOLEAN : \E deleted \in BOOLEAN :
         \E url \in {Strip(input_sheet[NextUrlRow(input_sheet) - 1])} :
            IF ~ProcessUrlWorks(scraped, llm)
            THEN /\ Answered("process_sheet", url, 500, IF scraped THEN "llm" ELSE "scrape")
                 /\ UNCHANGED <<persistent_data, output_sheet, input_sheet>>
            ELSE IF ~written
            THEN /\ Answered("process_sheet", url, 500, "write")
                 /\ input_sheet' = DeleteRow(input_sheet, NextUrlRow(input_sheet))
                 /\ UNCHANGED <<persistent_data, output_sheet>>
            ELSE /\ Len(output_sheet) < MaxRows
                 /\ output_sheet' = Append(output_sheet, DataRow(now, url, llm.data))
                 /\ UNCHANGED persistent_data
                 /\ DeleteQueued("process_sheet", url, NextUrlRow(input_sheet), deleted)

\* process_sheet, lines 156-196.
ProcessSheet ==
    IF NextUrlRow(input_sheet) = 0
    THEN /\ Answered("process_sheet", "", 200, "")
         /\ UNCHANGED <<persistent_data, output_sheet, input_sheet>>
    ELSE \E scraped \in BOOLEAN : \E llm \in LlmOutcomes :
         \E written \in BOOLEAN : \E deleted \in BOOLEAN :
         \E url \in {Strip(input_sheet[NextUrlRow(input_sheet) - 1])} :
            IF ~ProcessUrlWorks(scraped, llm)
            THEN /\ Answered("process_sheet", url, 500, IF scraped THEN "llm" ELSE "scrape")
                 /\ UNCHANGED <<persistent_data, output_sheet, input_sheet>>
            ELSE IF ~written
            THEN /\ Answered("process_sheet", url, 500, "write")
                 /\ UNCHANGED <<persistent_data, output_sheet, input_sheet>>
            ELSE /\ Len(output_sheet) < MaxRows
                 /\ output_sheet' = Append(output_sheet, DataRow(now, url, llm.data))
                 /\ UNCHANGED persistent_data
                 /\ DeleteQueued("process_sheet", url, NextUrlRow(input_sheet), deleted)

\* request_data.get('request_id') of /write_to_sheet; "" stands for a
\* missing id too (both falsy).
WriteRequests == {"", RequestId(1), RequestId(2), StoreUrl}

\* A /write_to_sheet that writes an empty record for an id it does not know.
WriteToSheetUnchecked ==
    \E request_id \in WriteRequests : \E success \in BOOLEAN :
        IF ~success
        THEN /\ Answered("write_to_sheet", request_id, 500, "write")
             /\ UNCHANGED <<persistent_data, output_sheet, input_sheet>>
        ELSE /\ Len(output_sheet) < MaxRows
             /\ output_sheet' = Append(output_sheet, EventRow(EmptyRecord))
             /\ persistent_data' = Del(persistent_data, request_id)
             /\ Answered("write_to_sheet", request_id, 200, "")
             /\ UNCHANGED input_sheet

\* A /write_to_sheet that keeps the record it has written.
WriteToSheetKeeping ==
    \E request_id \in WriteRequests : \E success \in BOOLEAN :
        IF request_id = "" \/ request_id \notin DOMAIN persistent_data
        THEN /\ Answered("write_to_sheet", request_id, 500, "not_found")
             /\ UNCHANGED <<persistent_data, output_sheet, input_sheet>>
        ELSE IF ~IsStoredRun(persistent_data[request_id])
        THEN /\ Answered("write_to_sheet", request_id, 500, "KeyError")
             /\ UNCHANGED <<persistent_data, output_sheet, input_sheet>>
        ELSE IF ~success
        THEN /\ Answered("write_to_sheet", request_id, 500, "write")
             /\ UNCHANGED <<persistent_data, output_sheet, input_sheet>>
        ELSE /\ Len(output_sheet) < MaxRows
             /\ output_sheet' = Append(output_sheet,
                                       EventRow(persistent_data[request_id].event_record))
             /\ Answered("write_to_sheet", request_id, 200, "")
             /\ UNCHANGED <<persistent_data, input_sheet>>

\* A /write_to_sheet that cleans up before it knows whether the write worked.
WriteToSheetDropping ==
    \E request_id \in WriteRequests : \E success \in BOOLEAN :
        IF request_id = "" \/ request_id \notin DOMAIN persistent_data
        THEN /\ Answered("write_to_sheet", request_id, 500, "not_found")
             /\ UNCHANGED <<persistent_data, output_sheet, input_sheet>>
        ELSE IF ~IsStoredRun(persistent_data[request_id])
        THEN /\ Answered("write_to_sheet", request_id, 500, "KeyError")
             /\ UNCHANGED <<persistent_data, output_sheet, input_sheet>>
        ELSE IF ~success
        THEN /\ Answered("write_to_sheet", request_id, 500, "write")
             /\ persistent_data' = Del(persistent_data, request_id)
             /\ UNCHANGED <<output_sheet, input_sheet>>
        ELSE /\ Len(output_sheet) < MaxRows
             /\ output_sheet' = Append(output_sheet,
                                       EventRow(persistent_data[request_id].event_record))
             /\ persistent_data' = Del(persistent_data, request_id)
             /\ Answered("write_to_sheet", request_id, 200, "")
             /\ UNCHANGED input_sheet

\* write_to_sheet, lines 340-359.  The HTTPException of line 344, and the
\* KeyError of line 346 for what /scrape stored, are caught at line 358 and
\* raised with status 500.
WriteToSheet ==
    \E request_id \in WriteRequests : \E success \in BOOLEAN :
        IF request_id = "" \/ request_id \notin DOMAIN persistent_data
        THEN /\ Answered("write_to_sheet", request_id, 500, "not_found")
             /\ UNCHANGED <<persistent_data, output_sheet, input_sheet>>
        ELSE IF ~IsStoredRun(persistent_data[request_id])
        THEN /\ Answered("write_to_sheet", request_id, 500, "KeyError")
             /\ UNCHANGED <<persistent_data, output_sheet, input_sheet>>
        ELSE IF ~success
        THEN /\ Answered("write_to_sheet", request_id, 500, "write")
             /\ UNCHANGED <<persistent_data, output_sheet, input_sheet>>
        ELSE /\ Len(output_sheet) < MaxRows
             /\ output_sheet' = Append(output_sheet,
                                       EventRow(persistent_data[request_id].event_record))
             /\ persistent_data' = Del(persistent_data, request_id)
             /\ Answered("write_to_sheet", request_id, 200, "")
             /\ UNCHANGED input_sheet

StoreNext ==
    \/ SkipText
    \/ SkipImage
    \/ ProcessImageInput
    \/ SkipPdf
    \/ Respond
    \/ ScrapeAndProcess
    \/ ConfirmData
    \/ ProcessSheet
    \/ WriteToSheet

SpecStore == StoreInit /\ [][StoreNext]_vars

(***************************************************************************)
(* Two run_scrape requests on one event loop.  The variables of a request  *)
(* are the frame of the request that is running; other is the frame of the *)
(* request that is suspended.  Between two steps of the running request    *)
(* the loop may resume the other one.  llm_kind, persistent_data and the   *)
(* clock are shared; the clock may advance between any two steps.          *)
(***************************************************************************)
\* The latest reading of the clock.
MaxClock == 2

\* The frame of the running request.
RunningFrame ==
    Frame(text_input, image_data, pdf_file, pc, event_record, all_discovered_urls,
          workflow_results, url_index, url_call, calls, backend_calls, last, response)

\* The frame of a request that has not started: lines 272-274 are still to run.
NewFrame(text, image, pdf) ==
    Frame(text, image, pdf, "text", EmptyRecord, <<>>, <<>>, 1, IdleUrlCall, <<>>, <<>>,
          NoCall, NoResponse)

\* The inputs of the two requests: a URL and a PDF, or a free text with a
\* link and an image.
RequestPairs ==
    {<<NewFrame(" https://Events.example/x ", "", NoPdf),
       NewFrame("", "", Pdf(<<"Expo 06.06.25", "https://events.example/pdf">>))>>,
     <<NewFrame("Conference on 05.06.25 at https://events.example/x", "", NoPdf),
       NewFrame("", "data:image/png;base64,QUJD", NoPdf)>>}

\* A loop whose requests share one record: the request that is resumed goes
\* on with the record the other one left.
ResumeSharingRecord(f) ==
    /\ text_input' = f.text_input
    /\ image_data' = f.image_data
    /\ pdf_file' = f.pdf_file
    /\ pc' = f.pc
    /\ event_record' = event_record
    /\ all_discovered_urls' = f.all_discovered_urls
    /\ workflow_results' = f.workflow_results
    /\ url_index' = f.url_index
    /\ url_call' = f.url_call
    /\ calls' = f.calls
    /\ backend_calls' = f.backend_calls
    /\ last' = f.last
    /\ response' = f.response

\* The running request takes up the frame f.
Resume(f) ==
    /\ text_input' = f.text_input
    /\ image_data' = f.image_data
    /\ pdf_file' = f.pdf_file
    /\ pc' = f.pc
    /\ event_record' = f.event_record
    /\ all_discovered_urls' = f.all_discovered_urls
    /\ workflow_results' = f.workflow_results
    /\ url_index' = f.url_index
    /\ url_call' = f.url_call
    /\ calls' = f.calls
    /\ backend_calls' = f.backend_calls
    /\ last' = f.last
    /\ response' = f.response

TwoInit ==
    /\ llm_kind \in LlmKinds
    /\ \E pair \in RequestPairs :
          /\ text_input = pair[1].text_input
          /\ image_data = pair[1].image_data
          /\ pdf_file = pair[1].pdf_file
          /\ other = pair[2]
    /\ pc = "text"
    /\ event_record = EmptyRecord
    /\ all_discovered_urls = <<>>
    /\ workflow_results = <<>>
    /\ url_index = 1
    /\ url_call = IdleUrlCall
    /\ calls = <<>>
    /\ backend_calls = <<>>
    /\ last = NoCall
    /\ response = NoResponse
    /\ persistent_data = NoData
    /\ now = 1
    /\ output_sheet = <<>>
    /\ input_sheet = <<>>

\* The running request is suspended at an await, or has answered, and the
\* loop resumes the other request.
Switch ==
    /\ other.pc \notin {"none", "done", "failed"}
    /\ Resume(other)
    /\ other' = RunningFrame
    /\ UNCHANGED <<llm_kind, server>>

\* Time passes.
Tick ==
    /\ now < MaxClock
    /\ now' = now + 1
    /\ UNCHANGED <<request, pc, event_record, all_discovered_urls, workflow_results,
                   url_index, url_call, calls, backend_calls, last, response,
                   persistent_data, output_sheet, input_sheet, other>>

TwoNext ==
    \/ Next
    \/ Switch
    \/ Tick

SpecTwo == TwoInit /\ [][TwoNext]_vars

(***************************************************************************)
(* Reading the error annotation                                            *)
(***************************************************************************)
\* First position >= i at which sub occurs in s, or 0.
RECURSIVE FindSub(_, _, _)
FindSub(s, i, sub) ==
    IF i + Len(sub) - 1 > Len(s) THEN 0
    ELSE IF HasPrefixAt(s, i, sub) THEN i
    ELSE FindSub(s, i + 1, sub)

Contains(s, sub) == FindSub(s, 1, sub) # 0

\* The pieces of s between occurrences of sep.
RECURSIVE SplitOn(_, _)
SplitOn(s, sep) ==
    IF FindSub(s, 1, sep) = 0 THEN <<s>>
    ELSE <<SubSeq(s, 1, FindSub(s, 1, sep) - 1)>>
         \o SplitOn(SubSeq(s, FindSub(s, 1, sep) + Len(sep), Len(s)), sep)

\* The notes of an error annotation, and how many of them are conflict notes
\* for field f.
NotesOf(annotation) == IF Truthy(annotation) THEN SplitOn(annotation.s, "; ") ELSE <<>>
IsNoteFor(f, note) == StartsWith(note, "Conflict in " \o f \o ": '")
NotesFor(f, annotation) ==
    Cardinality({i \in DOMAIN NotesOf(annotation) : IsNoteFor(f, NotesOf(annotation)[i])})

\* The annotation holds a conflict note for f that names both values.
NamesBoth(f, annotation, old, new) ==
    \E i \in DOMAIN NotesOf(annotation) :
        /\ IsNoteFor(f, NotesOf(annotation)[i])
        /\ Contains(NotesOf(annotation)[i], "'" \o PyFormat(old) \o "'")
        /\ Contains(NotesOf(annotation)[i], "'" \o PyFormat(new) \o "'")

\* The merge that completed last: its target before, its source, its target after.
Merged == last.op = "merge"
MergeTarget == last.before
MergeSource == last.result.extracted_data
MergeAfter == last.after

\* Field f of the target held a value and the source supplied another one.
Challenged(f) ==
    /\ Truthy(MergeTarget[f])
    /\ Truthy(MergeSource[f])
    /\ MergeTarget[f] # MergeSource[f]

\* The annotation gained exactly one conflict note for f, naming both values.
GainedOneNote(f) ==
    /\ NotesFor(f, MergeAfter["Error"]) = NotesFor(f, MergeTarget["Error"]) + 1
    /\ NamesBoth(f, MergeAfter["Error"], MergeTarget[f], MergeSource[f])

(***************************************************************************)
(* C1                                                                      *)
(***************************************************************************)
\* C1 as claimed: for every field f, the error annotation included, a target
\* value challenged by a different source value is unchanged after the merge
\* and the annotation has gained exactly one conflict note for f.
C1_EveryFieldKept ==
    Merged => \A f \in FieldNames :
                 Challenged(f) => MergeAfter[f] = MergeTarget[f] /\ GainedOneNote(f)

\* C1, amended: for every field f other than the error annotation, a target
\* value challenged by a different non-empty source value is unchanged after
\* the merge and the annotation has gained exactly one conflict note for f
\* naming the old and the new value; a challenged error annotation is kept as
\* the beginning of the new annotation and gains one conflict note for itself.
C1_ConflictKeepsTarget ==
    Merged =>
        /\ \A f \in FieldNames \ {"Error"} :
              Challenged(f) => MergeAfter[f] = MergeTarget[f] /\ GainedOneNote(f)
        /\ Challenged("Error") =>
              /\ StartsWith(MergeAfter["Error"].s, MergeTarget["Error"].s)
              /\ MergeAfter["Error"] # MergeTarget["Error"]
              /\ GainedOneNote("Error")

\* A merge in which the date and the speakers of the target were challenged.
C1_Witness ==
    /\ Merged
    /\ MergeTarget["date"] = Str("05.06.25")
    /\ MergeSource["date"] = Str("06.06.25")
    /\ MergeAfter["date"] = Str("05.06.25")
    /\ Challenged("speakers")
    /\ Contains(MergeAfter["Error"].s, "Conflict in date: '05.06.25' vs '06.06.25'")
    /\ Contains(MergeAfter["Error"].s, "Conflict in speakers: '['Dana']' vs '['Eli']'")

(***************************************************************************)
(* C2                                                                      *)
(***************************************************************************)
\* C2: for every field f that is unset or empty in the target (None, "" or
\* the empty list) and non-empty in the source, after the merge the target
\* holds the source's value exactly and no conflict note was recorded for f.
C2_BlankTakesSource ==
    Merged => \A f \in FieldNames :
                 (~Truthy(MergeTarget[f]) /\ Truthy(MergeSource[f])) =>
                     /\ MergeAfter[f] = MergeSource[f]
                     /\ NotesFor(f, MergeAfter["Error"]) = NotesFor(f, MergeTarget["Error"])

(***************************************************************************)
(* Reading the history of a request                                        *)
(***************************************************************************)
\* The sub-extractions run_scrape_endpoint invoked itself, in order.
IsEndpointCall(c) == c.caller = "endpoint"
EndpointCalls == SelectSeq(calls, IsEndpointCall)

\* The image pipeline calls made from inside process_url_workflow, in order.
IsUrlImageCall(c) == c.op = "image" /\ c.caller = "url"
UrlImageCalls == SelectSeq(calls, IsUrlImageCall)

\* The place of a driver call in the order text (or URL-only text), image,
\* PDF, discovered URLs.
Rank(c) ==
    IF c.op = "url" /\ c.depth = 1 THEN 4
    ELSE IF c.op \in {"text", "url"} THEN 1
    ELSE IF c.op = "image" THEN 2
    ELSE 3

Depth0Calls == {i \in DOMAIN EndpointCalls : Rank(EndpointCalls[i]) < 4}
Depth1Calls == {i \in DOMAIN EndpointCalls : Rank(EndpointCalls[i]) = 4}

\* The URLs a result reports as discovered.
UrlsOf(result) ==
    IF Truthy(result.discovered_urls)
    THEN {result.discovered_urls.l[k] : k \in DOMAIN result.discovered_urls.l}
    ELSE {}

\* The URLs the results of the depth-0 calls report: a depth-0 call that has
\* returned left its result in the trace, in the order of the calls.
Depth0Discovered ==
    UNION {UrlsOf(workflow_results[i]) :
              i \in {j \in DOMAIN workflow_results : j <= Cardinality(Depth0Calls)}}

Min(a, b) == IF a < b THEN a ELSE b

\* How many times sub occurs in s.
RECURSIVE Occurrences(_, _)
Occurrences(s, sub) ==
    IF FindSub(s, 1, sub) = 0 THEN 0
    ELSE 1 + Occurrences(SubSeq(s, FindSub(s, 1, sub) + Len(sub), Len(s)), sub)

(***************************************************************************)
(* C3                                                                      *)
(***************************************************************************)
\* C3: first writer wins over the whole request.  In every step of a
\* request, a field other than the error annotation that holds a non-empty
\* value keeps that value.
C3_FirstWriterWins ==
    [][\A f \in FieldNames \ {"Error"} :
           Truthy(event_record[f]) => event_record'[f] = event_record[f]]_vars

\* A later source supplied another date and another name, and the image slot
\* was taken: the record still holds the first date.
C3_Witness ==
    /\ event_record["date"] = Str("05.06.25")
    /\ Truthy(event_record["Error"])
    /\ Contains(event_record["Error"].s, "Conflict in date: '05.06.25' vs '06.06.25'")
    /\ Truthy(event_record["IMAGE"])

(***************************************************************************)
(* C4                                                                      *)
(***************************************************************************)
\* C4: the driver calls process_text (or process_url at depth 0 for a text
\* that is one URL), then process_image, then process_pdf, each at most once
\* and in that order, every call working on the record the call before it
\* left; a depth-1 process_url call is made only when every input present in
\* the request has been processed and every depth-0 call has returned.
C4_InputOrder ==
    /\ \A i, j \in DOMAIN EndpointCalls :
          i < j => /\ Rank(EndpointCalls[i]) <= Rank(EndpointCalls[j])
                   /\ Rank(EndpointCalls[j]) < 4
                         => Rank(EndpointCalls[i]) < Rank(EndpointCalls[j])
    /\ Depth1Calls # {} =>
          /\ Strip(text_input) # "" => \E i \in Depth0Calls : Rank(EndpointCalls[i]) = 1
          /\ image_data # "" => \E i \in Depth0Calls : Rank(EndpointCalls[i]) = 2
          /\ pdf_file.present => \E i \in Depth0Calls : Rank(EndpointCalls[i]) = 3
          /\ Len(workflow_results) >= Cardinality(Depth0Calls)
    /\ (last.caller = "endpoint" /\ url_call.stage = "idle") => last.after = event_record

\* A request with a text, an image and a PDF whose text led to a depth-1 call.
C4_Witness ==
    /\ pc = "done"
    /\ Len(EndpointCalls) >= 4
    /\ EndpointCalls[1].op = "text"
    /\ EndpointCalls[2].op = "image"
    /\ EndpointCalls[3].op = "pdf"
    /\ EndpointCalls[4].op = "url" /\ EndpointCalls[4].depth = 1

(***************************************************************************)
(* C5                                                                      *)
(***************************************************************************)
\* C5: when the response is returned, every URL that the result of a depth-0
\* call (free text, URL-only text or PDF) reports as discovered has been
\* handed to process_url at depth 1.
C5_EveryDiscoveredUrlProcessed ==
    pc = "done" =>
        \A u \in Depth0Discovered :
            \E i \in DOMAIN calls : calls[i] = Call("url", u, 1, "endpoint")

(***************************************************************************)
(* C6                                                                      *)
(***************************************************************************)
\* C6: the depth cap.  No sub-extraction runs at a depth greater than 1;
\* every URL process_url is given at depth 1 was reported as discovered by a
\* depth-0 call of the request; at depth 1 nothing runs but process_url,
\* called by the driver, and the text step of process_url: no image of a
\* depth-1 page is processed and no link of a depth-1 page is followed.
C6_DepthCap ==
    /\ \A i \in DOMAIN calls : calls[i].depth \in {0, 1}
    /\ \A i \in DOMAIN calls :
          calls[i].depth = 1 =>
              \/ calls[i].op = "url" /\ calls[i].caller = "endpoint"
                                     /\ calls[i].arg \in Depth0Discovered
              \/ calls[i].op = "text" /\ calls[i].caller = "url"
    /\ \A i \in DOMAIN all_discovered_urls : all_discovered_urls[i] \in Depth0Discovered

\* process_url at depth 1 has read a page that holds a link and an image, and
\* goes on with no image to process.
C6_Witness ==
    /\ pc = "urls"
    /\ url_call.stage = "images"
    /\ url_call.depth = 1
    /\ Contains(url_call.scraped_content, "https://events.example/y")
    /\ Contains(url_call.scraped_content, ImgTagOpen)
    /\ url_call.image_urls = <<>>
    /\ url_call.text_result.errors = None

(***************************************************************************)
(* C7                                                                      *)
(***************************************************************************)
\* C7: process_text_workflow called at depth 1 returns a WorkflowResult that
\* reports no discovered URL, also for a text that holds a valid link.
C7_NoDiscoveryBelowDepth0 ==
    (last.op = "text" /\ last.depth >= 1) =>
        /\ ~last.raised
        /\ ~Truthy(last.result.discovered_urls)

\* A depth-1 text call that succeeded on a text holding a valid link.
C7_Witness ==
    /\ last.op = "text"
    /\ last.depth = 1
    /\ DiscoverUrls(last.arg) = <<"https://events.example/y">>
    /\ last.result.errors = None
    /\ last.result.discovered_urls = Lst(<<>>)

(***************************************************************************)
(* C8                                                                      *)
(***************************************************************************)
\* The k-th image of a page of events.example, as the pages name them.
PageImage(k) == "https://events.example/i" \o CharAt(DigitChars, k + 1) \o ".png"

\* The image pipeline calls a depth-0 process_url makes on a page with n
\* image tags.
CappedImageCalls(n) == [k \in 1..Min(n, 3) |-> Call("image", PageImage(k), 0, "url")]

\* C8: the image cap.  When a process_url call at depth 0 returns after it
\* scraped a page with n image tags, it has invoked the image pipeline exactly
\* min(n, 3) times, on the first images of the page in page order.
C8_ImageCap ==
    [][(url_call.depth = 0 /\ url_call.stage = "images" /\ url_call'.stage = "idle")
          => UrlImageCalls' =
                 CappedImageCalls(Occurrences(url_call.scraped_content, "<img"))]_vars

\* process_url at depth 0 on a page with 5 images has called the image
\* pipeline 3 times and is about to return.
C8_Witness ==
    /\ url_call.depth = 0
    /\ url_call.stage = "images"
    /\ Occurrences(url_call.scraped_content, "<img") = 5
    /\ url_call.img_index = 4
    /\ UrlImageCalls = <<Call("image", PageImage(1), 0, "url"),
                         Call("image", PageImage(2), 0, "url"),
                         Call("image", PageImage(3), 0, "url")>>

(***************************************************************************)
(* C9                                                                      *)
(***************************************************************************)
\* C9 as claimed: a process_image call during which image decoding, the
\* download or optical recognition failed does not raise, returns a result
\* with a non-empty error list and leaves the record as it was.
C9_FailureReported ==
    (last.op = "image" /\ last.fault \in {"load", "ocr"}) =>
        /\ ~last.raised
        /\ Truthy(last.result.errors)
        /\ last.after = last.before

\* C9, amended: a process_image call during which image decoding or the
\* download failed does not raise, returns a result with a non-empty error
\* list and leaves the record as it was; a call during which optical
\* recognition failed does not raise and leaves the record as it was, and
\* returns the empty "no text found" result, which has no error list.
C9_FailureLeavesRecord ==
    /\ (last.op = "image" /\ last.fault = "load") =>
          /\ ~last.raised
          /\ Truthy(last.result.errors)
          /\ last.after = last.before
    /\ (last.op = "image" /\ last.fault = "ocr") =>
          /\ ~last.raised
          /\ last.result = WorkflowResult("image",
                                          "No text found in image or OCR not available",
                                          EmptyRecord, None, None)
          /\ last.after = last.before

\* The download of an image failed in a request whose record already held a
\* date.
C9_Witness ==
    /\ last.op = "image"
    /\ last.fault = "load"
    /\ StartsWith(last.arg, "http")
    /\ Truthy(last.before["date"])
    /\ last.result.errors = Lst(<<"Failed to download image: 404">>)

(***************************************************************************)
(* C10                                                                     *)
(***************************************************************************)
\* C10: no call of process_text, process_url, process_image or process_pdf
\* raises to its caller, whichever collaborator failed during it: each
\* returns a WorkflowResult of its own source kind, so no request ends in
\* the failure branch of the driver.
C10_NeverRaises ==
    /\ ~last.raised
    /\ last.op \in {"text", "url", "image", "pdf"} => last.result.source_type = last.op
    /\ pc # "failed"

\* A request answered although the scrape of its URL, the load of its image
\* and the backend call for its PDF text all failed.
C10_Witness ==
    /\ pc = "done"
    /\ Len(workflow_results) = 3
    /\ workflow_results[1].source_type = "url"
    /\ workflow_results[1].errors = Lst(<<ScrapeFailure>>)
    /\ workflow_results[2].source_type = "image"
    /\ Truthy(workflow_results[2].errors)
    /\ workflow_results[3].source_type = "pdf"
    /\ workflow_results[3].errors = Lst(<<LlmFailure>>)

(***************************************************************************)
(* C11                                                                     *)
(***************************************************************************)
\* C11: a process_url call during which the scrape failed, or the backend
\* failed in the text step the call delegates to, returns a WorkflowResult
\* with a non-empty error list.
C11_UrlFailureReported ==
    (last.op = "url" /\ last.fault \in {"scrape", "text"}) => Truthy(last.result.errors)

(***************************************************************************)
(* C12                                                                     *)
(***************************************************************************)
\* The URLs handed to process_url at depth 1, in the order of the calls.
IsDepth1Call(c) == c.op = "url" /\ c.depth = 1 /\ c.caller = "endpoint"
Depth1Urls == [i \in 1..Len(SelectSeq(calls, IsDepth1Call)) |->
                  SelectSeq(calls, IsDepth1Call)[i].arg]

\* C12: a failure while a discovered URL is processed does not end the
\* batch.  While the batch runs, the URLs before the current position have
\* all been handed to process_url at depth 1, in order; when the request is
\* answered, every collected URL has been, and the answer is a response with
\* the trace, not a failure.
C12_BatchGoesOn ==
    /\ pc = "urls" =>
          \/ Depth1Urls = SubSeq(all_discovered_urls, 1, url_index - 1)
          \/ url_call.stage # "idle"
             /\ Depth1Urls = SubSeq(all_discovered_urls, 1, url_index)
    /\ pc = "done" =>
          /\ Depth1Urls = all_discovered_urls
          /\ response.status = 200
          /\ response.total_workflows = Len(workflow_results)

\* The first of two discovered URLs could not be scraped; the second was
\* processed and the request answered.
C12_Witness ==
    /\ pc = "done"
    /\ Len(all_discovered_urls) = 2
    /\ Len(workflow_results) = 3
    /\ workflow_results[2].source_content = all_discovered_urls[1]
    /\ workflow_results[2].errors = Lst(<<ScrapeFailure>>)
    /\ workflow_results[3].source_content = all_discovered_urls[2]
    /\ workflow_results[3].errors = None

(***************************************************************************)
(* C13                                                                     *)
(***************************************************************************)
\* C13: when the request is answered, the trace holds one WorkflowResult for
\* every sub-extraction that was invoked during the request, the image
\* pipeline runs on the images of a scraped page included, in the order of
\* the invocations.
C13_TraceHoldsEveryResult ==
    pc = "done" =>
        /\ Len(workflow_results) = Len(calls)
        /\ \A i \in DOMAIN calls : workflow_results[i].source_type = calls[i].op

ImageUrlStep ==
    /\ last' # last
    /\ last'.op = "image"
    /\ StartsWith(last'.arg, "http")

\* The fields extracted from the image include a date, a name or a start time.
YieldedEventInfo(result) ==
    \E f \in {"date", "name", "start"} : Truthy(result.extracted_data[f])

BackendGaveImage ==
    /\ last' # last
    /\ last'.op \in {"text", "image", "pdf"}
    /\ Truthy(last'.result.extracted_data["IMAGE"])

NoTextResult ==
    WorkflowResult("image", "No text found in image or OCR not available",
                   EmptyRecord, None, None)

PdfDidAs(text_call) ==
    /\ ~last.raised
    /\ last.after = text_call.record
    /\ last.result = [text_call.result EXCEPT !.source_type = "pdf"]

IsAbsoluteUrl(t, colon) ==
    /\ FindAny(t, 1, Whitespace) > Len(t)
    /\ colon > 1
    /\ AllIn(SubSeq(t, 1, colon - 1), LowerChars \o UpperChars)
    /\ HasPrefixAt(t, colon, "://")
    /\ colon + 3 <= Len(t)
    /\ ~InChars(CharAt(t, colon + 3), "/?#")

SchemeOf(u) == SubSeq(u, 1, FindSub(u, 1, "://") - 1)
HostStart(u) == FindSub(u, 1, "://") + 3
HostOf(u) == SubSeq(u, HostStart(u), FindAny(u, HostStart(u), "/?#") - 1)
PathOfLink(u) ==
    SubSeq(u, FindAny(u, HostStart(u), "/?#"), FindAny(u, HostStart(u), "?#") - 1)
QueryOf(u) ==
    SubSeq(u, FindAny(u, HostStart(u), "?#") + 1, FindAny(u, HostStart(u), "#") - 1)

\* The links the extractor finds that have a scheme and a host.
WithSchemeAndHost(u) == SchemeOf(u) # "" /\ HostOf(u) # ""
Candidates(text) == SelectSeq(extract_urls_from_text(text), WithSchemeAndHost)

\* url is the normalised form of the link found: same scheme, the host in
\* lower case, the same path and query, no fragment.
IsNormalOf(url, found) ==
    /\ SchemeOf(url) = SchemeOf(found)
    /\ HostOf(url) = Lower(HostOf(found))
    /\ PathOfLink(url) = PathOfLink(found)
    /\ QueryOf(url) = QueryOf(found)
    /\ FindAny(url, 1, "#") > Len(url)

\* discovered_urls of a result, as a sequence (None and [] are both empty).
DiscoveredOf(result) ==
    IF result.discovered_urls.k = "list" THEN result.discovered_urls.l ELSE <<>>

Discovered(text) ==
    /\ Len(DiscoveredOf(last.result)) = Len(Candidates(text))
    /\ \A i \in 1..Len(Candidates(text)) :
          IsNormalOf(DiscoveredOf(last.result)[i], Candidates(text)[i])

IsRecordOf(fields, data) ==
    /\ DOMAIN fields = FieldNames
    /\ \A f \in FieldNames : fields[f] = IF f \in DOMAIN data THEN data[f] ELSE None

EndToEndText == "Conference on 05.06.25 at https://events.example/x"
EndToEndLink == "https://events.example/x"
EndToEndDate == Str("05.06.25")

\* The only input of the request is the free text.
OnlyEndToEndText ==
    /\ text_input = EndToEndText
    /\ image_data = ""
    /\ ~pdf_file.present

\* The backend has just answered a process_data call with a field map that
\* holds the date.
BackendGaveDate ==
    /\ backend_calls # <<>>
    /\ backend_calls[1].answer.ok
    /\ "date" \in DOMAIN backend_calls[1].answer.data
    /\ backend_calls[1].answer.data["date"] = EndToEndDate

\* C21: in a request whose only input is the text "Conference on 05.06.25 at
\* https://events.example/x", once the backend has extracted the date from
\* the text, the record holds the date and the trace is the text result,
\* which lists the link as its only discovered URL; and at the end of such a
\* request the record holds the date and the trace is the text result
\* followed by one url result, that of the depth-1 call for the link.
C21_EndToEnd ==
    /\ (OnlyEndToEndText /\ pc = "image" /\ BackendGaveDate) =>
          /\ event_record["date"] = EndToEndDate
          /\ Len(workflow_results) = 1
          /\ workflow_results[1].source_type = "text"
          /\ workflow_results[1].discovered_urls = Lst(<<EndToEndLink>>)
    /\ (/\ OnlyEndToEndText
        /\ pc = "done"
        /\ Len(workflow_results) >= 1
        /\ workflow_results[1].extracted_data["date"] = EndToEndDate) =>
          /\ event_record["date"] = EndToEndDate
          /\ Len(workflow_results) = 2
          /\ workflow_results[1].source_type = "text"
          /\ workflow_results[1].discovered_urls = Lst(<<EndToEndLink>>)
          /\ workflow_results[2].source_type = "url"
          /\ workflow_results[2].source_content = EndToEndLink
          /\ SelectSeq(calls, IsEndpointCall) =
                <<Call("text", EndToEndText, 0, "endpoint"),
                  Call("url", EndToEndLink, 1, "endpoint")>>

(***************************************************************************)
(* C22                                                                     *)
(***************************************************************************)
\* The URLs the driver collects from its depth-0 calls: those the result of
\* the text input (free text, or a URL on its own) reports, in order.
CollectedAtDepth0 ==
    IF Len(EndpointCalls) >= 1 /\ Rank(EndpointCalls[1]) = 1
    THEN DiscoveredOf(workflow_results[1])
    ELSE <<>>

\* C22: in every response, the summary count is the number of results in the
\* trace, and the summary count of discovered URLs is the number of URLs
\* collected from the depth-0 calls, which is the number of depth-1
\* process_url calls made.
C22_SummaryCounts ==
    pc = "done" =>
        /\ response.total_workflows = Len(workflow_results)
        /\ response.discovered_urls_count = Len(CollectedAtDepth0)
        /\ response.discovered_urls_count = Len(Depth1Urls)
        /\ all_discovered_urls = CollectedAtDepth0

\* A response after a text with two links and an image: four results, two
\* discovered URLs, two depth-1 calls.
C22_Witness ==
    /\ pc = "done"
    /\ image_data # ""
    /\ response.total_workflows = 4
    /\ Len(workflow_results) = 4
    /\ response.discovered_urls_count = 2
    /\ Len(Depth1Urls) = 2
    /\ Len(calls) > 4

(***************************************************************************)
(* C29: process_text_workflow asks the backend with the full field schema, *)
(* the one process_image_workflow passes, and what it merges into the      *)
(* record is the field map the backend returned: every text call that the  *)
(* backend answered passed schema_content, and left the record merged with *)
(* the fields of the answer.                                               *)
(***************************************************************************)
TextCallAsked == last.op = "text" /\ Len(backend_calls) = 1

C29_TextAsksWithSchema ==
    TextCallAsked =>
        /\ backend_calls[1].schema = schema_content
        /\ backend_calls[1].answer.ok =>
               last.after = MergeEventData(last.before,
                                           EventRecordOf(backend_calls[1].answer.data))

(***************************************************************************)
(* C24: every field of the record of a request, other than the error       *)
(* annotation and the image reference, that holds a value holds a value    *)
(* the backend returned for that field for some source of the request, and *)
(* a field no source supplied is unset: the record starts with every field *)
(* unset, and a step changes such a field only to the value an answer of   *)
(* the backend in that step holds for it.                                  *)
(***************************************************************************)
ProvenanceFields == FieldNames \ {"Error", "IMAGE"}

ReturnedFor(asks, f, v) ==
    \E i \in DOMAIN asks :
        /\ asks[i].answer.ok
        /\ f \in DOMAIN asks[i].answer.data
        /\ asks[i].answer.data[f] = v

C24_FieldsComeFromBackend ==
    /\ \A f \in ProvenanceFields : event_record[f] = None
    /\ [][\A f \in ProvenanceFields :
              \/ event_record'[f] = event_record[f]
              \/ ReturnedFor(backend_calls', f, event_record'[f])]_vars

\* A request answered with a record that took fields from two sources.
C24_Witness ==
    /\ pc = "done"
    /\ event_record["date"] = Str("05.06.25")
    /\ event_record["speakers"] = Lst(<<"Dana">>)
    /\ event_record["name"] = None

(***************************************************************************)
(* C25: the error annotation only grows.  After a merge into a target      *)
(* whose annotation was not empty, the previous annotation is the          *)
(* beginning of the new one, and what follows it is one note               *)
(* "Conflict in <field>: '<old>' vs '<new>'" for each field in which the   *)
(* target held a value and the source supplied another, each preceded by   *)
(* "; "; a merge with no such field leaves the annotation as it was.       *)
(***************************************************************************)
NoteOfConflict(f) ==
    "; Conflict in " \o f \o ": '" \o PyFormat(MergeTarget[f]) \o "' vs '"
        \o PyFormat(MergeSource[f]) \o "'"

RECURSIVE NotesOfConflictsFrom(_)
NotesOfConflictsFrom(i) ==
    IF i > Len(FieldOrder) THEN ""
    ELSE (IF Challenged(FieldOrder[i]) THEN NoteOfConflict(FieldOrder[i]) ELSE "")
         \o NotesOfConflictsFrom(i + 1)

C25_AnnotationOnlyGrows ==
    (Merged /\ Truthy(MergeTarget["Error"])) =>
        /\ StartsWith(MergeAfter["Error"].s, MergeTarget["Error"].s)
        /\ MergeAfter["Error"] = Str(MergeTarget["Error"].s \o NotesOfConflictsFrom(1))

(***************************************************************************)
(* C30: a list field whose value in the target is the empty list counts as *)
(* empty, and one whose value in the source is the empty list counts as    *)
(* absent: the merge copies a non-empty list of the source over an empty   *)
(* list of the target and records no conflict, and an empty list of the    *)
(* source changes neither the field nor the annotation.                    *)
(***************************************************************************)
C30_EmptyListIsEmpty ==
    Merged => \A f \in ListFields :
        /\ (MergeTarget[f] = Lst(<<>>) /\ Truthy(MergeSource[f])) =>
               /\ MergeAfter[f] = MergeSource[f]
               /\ NotesFor(f, MergeAfter["Error"]) = NotesFor(f, MergeTarget["Error"])
        /\ MergeSource[f] = Lst(<<>>) =>
               /\ MergeAfter[f] = MergeTarget[f]
               /\ NotesFor(f, MergeAfter["Error"]) = NotesFor(f, MergeTarget["Error"])

(***************************************************************************)
(* C27: the text of a request goes through exactly one pipeline.  Once the *)
(* text step is taken: a text that is one URL has gone to process_url at   *)
(* depth 0, on the normalized URL, and never to process_text from the      *)
(* endpoint; any other text that is not blank has gone to process_text at  *)
(* depth 0, trimmed, and no process_url call at depth 0 is made; a missing *)
(* or blank text has gone to neither.                                      *)
(***************************************************************************)
IsEndpointTextCall(c) == c.caller = "endpoint" /\ c.op = "text"
IsDepth0UrlCall(c) == c.caller = "endpoint" /\ c.op = "url" /\ c.depth = 0

EndpointTextCalls == SelectSeq(calls, IsEndpointTextCall)
Depth0UrlCalls == SelectSeq(calls, IsDepth0UrlCall)

TextStepTaken == pc # "text"

\* The call the text step makes, if any, is the first call of the request.
FirstCallIs(c) == Len(calls) >= 1 /\ calls[1] = c

\* The pipelines the text has gone through: at most one call, and it is the
\* first call of the request.
OnePipelineCall ==
    IF Strip(text_input) = ""
    THEN EndpointTextCalls = <<>> /\ Depth0UrlCalls = <<>>
    ELSE /\ Len(EndpointTextCalls) + Len(Depth0UrlCalls) = 1
         /\ IsEndpointTextCall(calls[1]) \/ IsDepth0UrlCall(calls[1])

\* The first call of the request is the one the text calls for.
RightPipelineCall ==
    IF is_url_only_text(text_input) # ""
    THEN FirstCallIs(Call("url", normalize_url(Strip(text_input)), 0, "endpoint"))
    ELSE FirstCallIs(Call("text", Strip(text_input), 0, "endpoint"))

C27_OnePipelineForText ==
    /\ [](TextStepTaken => OnePipelineCall)
    /\ []((TextStepTaken /\ Len(calls) = 1 /\ Strip(text_input) # "") => RightPipelineCall)
    /\ [][Len(calls) >= 1 => calls'[1] = calls[1]]_vars

\* An answered request whose text was one URL, surrounded by blanks and not
\* in normal form, and whose page was scraped and read.
C27_Witness ==
    /\ pc = "done"
    /\ is_url_only_text(text_input) # ""
    /\ text_input # normalize_url(Strip(text_input))
    /\ Len(workflow_results) >= 1
    /\ workflow_results[1].source_type = "url"
    /\ workflow_results[1].errors = None

(***************************************************************************)
(* C28: inside process_url at depth 0, a failure in processing one image   *)
(* of the page never cancels its siblings.  The step in which an image     *)
(* fails moves the call on to the next image and keeps what the page text  *)
(* gave; while the call is at its images, every image before the current   *)
(* one, failed or not, has been processed, in page order; and the call     *)
(* returns only after the last of the first 3 images, with a url result    *)
(* that holds the fields and the discovered URLs of the page text.         *)
(***************************************************************************)
AtImagesOfDepth0 == url_call.stage = "images" /\ url_call.depth = 0

\* This step is a process_image call of the page that failed.
PageImageFailed ==
    /\ AtImagesOfDepth0
    /\ calls' # calls
    /\ last'.op = "image" /\ last'.caller = "url"
    /\ last'.raised \/ Truthy(last'.result.errors)

\* This step is the return of the call.
PageCallReturns == AtImagesOfDepth0 /\ url_call'.stage = "idle"

ImagesProcessedSoFar ==
    UrlImageCalls = [k \in 1..(url_call.img_index - 1) |->
                        Call("image", url_call.image_urls[k], 0, "url")]

C28_ImageFailureSparesSiblings ==
    /\ [][PageImageFailed =>
             /\ url_call' = [url_call EXCEPT !.img_index = url_call.img_index + 1]
             /\ UNCHANGED <<pc, workflow_results, all_discovered_urls>>]_vars
    /\ [](AtImagesOfDepth0 => ImagesProcessedSoFar)
    /\ [][PageCallReturns =>
             /\ url_call.img_index = Min(Len(url_call.image_urls), 3) + 1
             /\ last'.op = "url" /\ ~last'.raised
             /\ last'.result = WorkflowResult("url", url_call.url,
                                              url_call.text_result.extracted_data,
                                              url_call.text_result.discovered_urls,
                                              None)
             /\ workflow_results' = <<last'.result>>]_vars

\* The second of the images of a page could not be loaded, and the call is
\* about to process the third.
C28_Witness ==
    /\ AtImagesOfDepth0
    /\ Len(url_call.image_urls) >= 3
    /\ url_call.img_index = 3
    /\ last.op = "image" /\ last.caller = "url"
    /\ last.arg = url_call.image_urls[2]
    /\ last.fault = "load"
    /\ Truthy(last.result.errors)
    /\ Len(UrlImageCalls) = 2

(***************************************************************************)
(* C23: confirming an identifier for which no record is stored is rejected *)
(* as a failed request, writes nothing to the output sheet and leaves the  *)
(* stored records as they were: a /write_to_sheet call with a missing id   *)
(* or an id that is no key of persistent_data, and a /confirm call with a  *)
(* URL that is no key of it, answer with an error status and change        *)
(* neither output_sheet nor persistent_data.                               *)
(***************************************************************************)
\* This step is a call of the endpoint op by a client.
ClientCalled(op) == last' # last /\ last'.caller = "client" /\ last'.op = op

NothingStoredFor(id) == id = "" \/ id \notin DOMAIN persistent_data

Rejected(status) == status >= 400

C23_UnknownIdRejected ==
    [][((ClientCalled("write_to_sheet") \/ ClientCalled("confirm"))
            /\ NothingStoredFor(last'.arg))
          => /\ Rejected(response'.status)
             /\ output_sheet' = output_sheet
             /\ persistent_data' = persistent_data
             /\ input_sheet' = input_sheet]_vars

\* /write_to_sheet was called with an id that was never given out while the
\* record of a request was stored, and both are as they were.
C23_Witness ==
    /\ last.op = "write_to_sheet"
    /\ last.arg = RequestId(2)
    /\ response.status = 500
    /\ DOMAIN persistent_data = {RequestId(1), StoreUrl}
    /\ Truthy(persistent_data[RequestId(1)].event_record["date"])
    /\ output_sheet = <<>>

(***************************************************************************)
(* C26: request isolation.  With two run_scrape requests interleaved in    *)
(* any way, no step of one request changes the record, the trace or any    *)
(* other local of the other: in every step the frame of the suspended      *)
(* request stays as it is, or the two requests change places and each      *)
(* frame is taken up exactly as it was left.  The record a request ends    *)
(* with is therefore the one its own sub-extractions built.                *)
(***************************************************************************)
\* The two requests change places in this step.
ChangePlaces == other' = RunningFrame /\ RunningFrame' = other

C26_RequestIsolation == [][other' = other \/ ChangePlaces]_vars

\* Both requests are in progress: the running one holds the date of its text
\* and is reading the page of the link it discovered, the suspended one holds
\* what its image left, no date and an error annotation, and has still to
\* look at its PDF.
C26_Witness ==
    /\ pc = "urls"
    /\ url_call.stage = "text"
    /\ url_call.depth = 1
    /\ event_record["date"] = Str("05.06.25")
    /\ event_record["Error"] = None
    /\ other.pc = "pdf"
    /\ other.event_record["date"] = None
    /\ Truthy(other.event_record["Error"])
    /\ Len(other.workflow_results) = 1

(***************************************************************************)
(* C31: a produced record is written to the output sheet at most once.  A  *)
(* /write_to_sheet call that succeeds appends the row of the record stored *)
(* under the id and removes that record; while the record is stored no row *)
(* of it is in the sheet; and a later /write_to_sheet call with the same   *)
(* id is rejected and writes nothing.                                      *)
(***************************************************************************)
\* A row write_event_record wrote: write_data ends its rows with "Success", "".
IsEventRow(row) == row[Len(row) - 1] # "Success"
EventRows(sheet) == SelectSeq(sheet, IsEventRow)

WriteSucceeded == ClientCalled("write_to_sheet") /\ response'.status = 200

C31_WrittenAtMostOnce ==
    /\ [][WriteSucceeded =>
             /\ last'.arg \in DOMAIN persistent_data
             /\ persistent_data' = Del(persistent_data, last'.arg)
             /\ output_sheet' =
                    Append(output_sheet,
                           EventRow(persistent_data[last'.arg].event_record))]_vars
    /\ [](RequestId(1) \in DOMAIN persistent_data => EventRows(output_sheet) = <<>>)
    /\ [](Len(EventRows(output_sheet)) <= 1)
    /\ [][(ClientCalled("write_to_sheet") /\ last'.arg = RequestId(1)
              /\ EventRows(output_sheet) # <<>>)
            => /\ Rejected(response'.status)
               /\ output_sheet' = output_sheet
               /\ persistent_data' = persistent_data]_vars

\* The record of the request was written, and a second /write_to_sheet call
\* with its id has been rejected.
C31_Witness ==
    /\ pc = "done"
    /\ last.op = "write_to_sheet"
    /\ last.arg = RequestId(1)
    /\ Rejected(response.status)
    /\ RequestId(1) \notin DOMAIN persistent_data
    /\ output_sheet = <<EventRow(event_record)>>
    /\ Truthy(event_record["date"])

(***************************************************************************)
(* C32: when write_event_record fails during /write_to_sheet, the call is  *)
(* answered as failed, the store and the output sheet stay as they were,   *)
(* and in the state that follows a /write_to_sheet call with the same id   *)
(* that succeeds is possible.                                              *)
(***************************************************************************)
WriteFailed == last.op = "write_to_sheet" /\ last.fault = "write"

RetrySucceeds ==
    WriteToSheet /\ last'.arg = last.arg /\ response'.status = 200

C32_FailedWriteKeepsRecord ==
    /\ [][(ClientCalled("write_to_sheet") /\ last'.fault = "write")
            => /\ Rejected(response'.status)
               /\ persistent_data' = persistent_data
               /\ output_sheet' = output_sheet
               /\ input_sheet' = input_sheet]_vars
    /\ [](WriteFailed =>
            /\ Rejected(response.status)
            /\ last.arg \in DOMAIN persistent_data
            /\ persistent_data[last.arg] = StoredRun(event_record, workflow_results)
            /\ (Len(output_sheet) < MaxRows => ENABLED RetrySucceeds))

\* The write of the record of the request has just failed; the record read
\* from the image is still stored under the id.
C32_Witness ==
    /\ WriteFailed
    /\ last.arg = RequestId(1)
    /\ response.status = 500
    /\ output_sheet = <<>>
    /\ Truthy(persistent_data[RequestId(1)].event_record["date"])

(***************************************************************************)
(* C33: any two run_scrape requests are stored under different request     *)
(* ids: once both have answered, their ids differ and the record of the    *)
(* one that answered first is still stored under its id, whatever the      *)
(* clock read when each of them reached line 313.                          *)
(***************************************************************************)
BothAnswered == pc = "done" /\ other.pc = "done"

C33_DistinctRequestIds ==
    BothAnswered =>
        /\ response.request_id # other.response.request_id
        /\ other.response.request_id \in DOMAIN persistent_data
        /\ persistent_data[other.response.request_id]
               = StoredRun(other.event_record, other.workflow_results)

(***************************************************************************)
(* C34: a queued URL leaves the input sheet only in a /confirm or          *)
(* /process-sheet step that is answered 200 and has appended the row of    *)
(* that URL to the output sheet.  When the output write fails the call is  *)
(* rejected and neither sheet changes; when the delete fails after the     *)
(* write the call is answered 207, the written row stays in the output     *)
(* sheet and the input sheet is as it was.                                 *)
(***************************************************************************)
QueuedUrls(sheet) == {Strip(sheet[i]) : i \in DOMAIN sheet} \ {""}

\* The step is a /confirm or /process-sheet call.  A call that repeats the
\* one before it leaves last as it was and is known by the sheet it changed.
QueueCalled ==
    /\ last'.caller = "client"
    /\ last'.op \in {"confirm", "process_sheet"}
    /\ (last' # last \/ output_sheet' # output_sheet \/ input_sheet' # input_sheet)

\* The step appended one row to the output sheet, the row of the URL.
WroteRowOf(url) ==
    /\ Len(output_sheet') = Len(output_sheet) + 1
    /\ SubSeq(output_sheet', 1, Len(output_sheet)) = output_sheet
    /\ output_sheet'[Len(output_sheet')][2] = url
    /\ ~IsEventRow(output_sheet'[Len(output_sheet')])

MergedAgain == pc = "merged_again"

\* errors of the first call (line 232) stayed empty.
FirstRecordedNoConflict == ConflictsFrom(1, MergeTarget, MergeSource) = <<>>

C36_MergeIdempotent ==
    MergedAgain =>
        /\ FirstRecordedNoConflict => event_record = MergeAfter
        /\ \A f \in FieldNames \ {"Error"} : event_record[f] = MergeAfter[f]

\* The first merge copied the date and the source's annotation into a target
\* that had a name, and recorded no conflict; the second changed nothing.
C36_Witness ==
    /\ MergedAgain
    /\ FirstRecordedNoConflict
    /\ MergeTarget["date"] = Str("")
    /\ MergeTarget["speakers"] = Lst(<<"Dana">>)
    /\ MergeSource["date"] = Str("06.06.25")
    /\ MergeSource["speakers"] = Lst(<<"Dana">>)
    /\ MergeSource["Error"] = Str("Data conversion error")
    /\ MergeTarget["Error"] = None
    /\ MergeAfter # MergeTarget
    /\ event_record = MergeAfter
    /\ event_record["date"] = Str("06.06.25")

(***************************************************************************)
(* C37: the frame of _merge_event_data.  A field of target other than the  *)
(* error annotation is changed by the merge only when it is non-empty in   *)
(* source and was unset or empty in target; every other field is as it was *)
(* before the call.                                                        *)
(***************************************************************************)
ChangedByMerge(f) == MergeAfter[f] # MergeTarget[f]

C37_MergeFrame ==
    Merged => \A f \in FieldNames \ {"Error"} :
        ChangedByMerge(f) => Truthy(MergeSource[f]) /\ ~Truthy(MergeTarget[f])

(***************************************************************************)
(* C35: termination.  Under the fair scheduling of SpecFair every request  *)
(* eventually returns its response.  On the way the driver makes at most   *)
(* one depth-0 call for the text (process_text or process_url), one for    *)
(* the image and one for the PDF, and none for an input that is missing;   *)
(* process_url makes at most 3 calls for the images of its page; and when  *)
(* the response is returned the depth-1 calls are the collected URLs, one  *)
(* call each, in their order.                                              *)
(***************************************************************************)
Responded == pc \in {"done", "failed"} /\ response.status # 0

IsEndpointImageCall(c) == c.caller = "endpoint" /\ c.op = "image"
IsEndpointPdfCall(c) == c.caller = "endpoint" /\ c.op = "pdf"

AtMost(present) == IF present THEN 1 ELSE 0

CallBudget ==
    /\ Len(EndpointTextCalls) + Len(Depth0UrlCalls)
           <= AtMost(text_input # "" /\ Strip(text_input) # "")
    /\ Len(SelectSeq(calls, IsEndpointImageCall)) <= AtMost(image_data # "")
    /\ Len(SelectSeq(calls, IsEndpointPdfCall)) <= AtMost(pdf_file.present)
    /\ Len(UrlImageCalls) <= ImageLimit
    /\ Len(Depth1Urls) <= Len(all_discovered_urls)
    /\ \A i \in DOMAIN calls : calls[i].depth \in {0, 1}

C35_Termination ==
    /\ <>Responded
    /\ [](Responded => pc = "done" /\ response.status = 200)
    /\ []CallBudget
    /\ [](pc = "done" => Depth1Urls = all_discovered_urls)

\* A request with a URL, an image and a PDF has returned after the depth-0
\* call of each, one call for the image of the page and one depth-1 call for
\* the link the page held.
C35_Witness ==
    /\ pc = "done"
    /\ response.status = 200
    /\ Len(Depth0UrlCalls) = 1
    /\ Len(SelectSeq(calls, IsEndpointImageCall)) = 1
    /\ Len(SelectSeq(calls, IsEndpointPdfCall)) = 1
    /\ Len(UrlImageCalls) = 1
    /\ Len(all_discovered_urls) = 1
    /\ Depth1Urls = all_discovered_urls

====
